---- MODULE Spec2Model ----
(***************************************************************************)
(* Lockstep netcode of the Pong web client (clients/web/src/lockstep.ts):  *)
(* two Lockstep engines, one per side, each driving its own simulation     *)
(* core and exchanging wire messages through a byte transport.             *)
(***************************************************************************)
EXTENDS Integers, Sequences, FiniteSets, TLC

\* ------------------------------------------------------------------ bounds
MaxTick == 2            \* ticks the cursor may reach in the model
MaxInFlight == 1        \* messages the channel holds in one direction
MaxPayload == 3         \* length of the snapshot payloads handed to the codec
MaxRaw == 10            \* length of the raw buffers handed to WireMsg.decode
MaxLoops == 2           \* gameLoop closures with a pending animation-frame request

\* --------------------------------------------------------- wire constants
WIRE_MSG_INPUT_PAIR == 1
WIRE_MSG_SNAPSHOT == 2
WIRE_MSG_PING == 3

Left == 0
Right == 1
Side == {Left, Right}
Other(p) == 1 - p

\* Inputs the input manager hands to onLocalInput (never the zero pair, so
\* that the placeholder of the wire message stays recognisable).
Inputs == {[axis_y |-> 127, buttons |-> 0], [axis_y |-> -127, buttons |-> 1]}
ZeroInput == [axis_y |-> 0, buttons |-> 0]

\* ------------------------------------------------------------- Map<number, Input>
EmptyMap == [k \in {} |-> ZeroInput]
MapHas(m, k) == k \in DOMAIN m
\* (mutation) a map of capacity one: setting a key evicts every other entry
MapSetEvicting(m, k, v) == [x \in {k} |-> v]

MapSet(m, k, v) == [x \in (DOMAIN m) \cup {k} |-> IF x = k THEN v ELSE m[x]]
\* (mutation) a delete that removes nothing
MapKeep(m, k) == m

MapDelete(m, k) == [x \in (DOMAIN m) \ {k} |-> m[x]]

\* ------------------------------------------------------------- DataView
\* (mutation) the four bytes written most significant first
SetUint32BigEndian(n) == <<(n \div 16777216) % 256, (n \div 65536) % 256, (n \div 256) % 256, n % 256>>

SetUint32(n) == <<n % 256, (n \div 256) % 256, (n \div 65536) % 256, (n \div 16777216) % 256>>
GetUint32(bytes, off) == bytes[off + 1] + 256 * bytes[off + 2] + 65536 * bytes[off + 3] + 16777216 * bytes[off + 4]
SetInt8(v) == v % 256
\* (mutation) the byte read back unsigned
GetInt8Unsigned(b) == b

GetInt8(b) == IF b >= 128 THEN b - 256 ELSE b
SetUint8(v) == v % 256

\* ------------------------------------------------------------- WireMsg
encodeInputPair(inputPair) ==
    <<WIRE_MSG_INPUT_PAIR>> \o SetUint32(inputPair.tick) \o
    <<SetInt8(inputPair.a.axis_y), SetUint8(inputPair.a.buttons),
      SetInt8(inputPair.b.axis_y), SetUint8(inputPair.b.buttons)>>

\* (mutation) the payload sent without its tag
encodeSnapshotUntagged(snapshotBytes) == snapshotBytes

encodeSnapshot(snapshotBytes) == <<WIRE_MSG_SNAPSHOT>> \o snapshotBytes

encodePing(timestamp) == <<WIRE_MSG_PING>> \o SetUint32(timestamp)

\* (mutation) undecodable bytes taken for a Ping
DecodedAsPing == [type |-> "ping", timestamp |-> 0]

\* decode() throwing: no message is returned
DecodeError == [type |-> "error"]

\* (mutation) the whole message, tag included, handed on as snapshot payload
PayloadWithTag(bytes) == bytes

\* the bytes of a Snapshot message after its tag
SnapshotPayload(bytes) == SubSeq(bytes, 2, Len(bytes))

decode(bytes) ==
    IF Len(bytes) = 0 THEN DecodeError
    ELSE IF bytes[1] = WIRE_MSG_INPUT_PAIR THEN
        IF Len(bytes) # 9 THEN DecodeError
        ELSE [type |-> "input_pair",
              inputPair |-> [tick |-> GetUint32(bytes, 1),
                             a |-> [axis_y |-> GetInt8(bytes[6]), buttons |-> bytes[7]],
                             b |-> [axis_y |-> GetInt8(bytes[8]), buttons |-> bytes[9]]]]
    ELSE IF bytes[1] = WIRE_MSG_SNAPSHOT THEN
        [type |-> "snapshot", data |-> SnapshotPayload(bytes)]
    ELSE IF bytes[1] = WIRE_MSG_PING THEN
        IF Len(bytes) # 5 THEN DecodeError
        ELSE [type |-> "ping", timestamp |-> GetUint32(bytes, 1)]
    ELSE DecodeError

\* ------------------------------------------------------------- simulation core
\* number of values of the digest that stands for the game state
DigestMod == 2

\* The Rust core (pong_core, WasmGame) behind CoreAdapter: a tick counter and
\* a digest of everything the transition function has consumed.
NewGame == [tick |-> 0, digest |-> 0]

InputCode(i) == (i.axis_y + i.buttons) % DigestMod

CoreStep(g, a, b) ==
    [tick |-> g.tick + 1,
     digest |-> (g.digest + InputCode(a) + InputCode(b) + 1) % DigestMod]

\* what core.step returns besides stepping: the event of the tick, if any
\* (a score), as a list of at most one value
StepEvent(g, a, b) ==
    IF CoreStep(g, a, b).digest = 0
    THEN <<[Scored |-> CoreStep(g, a, b).tick]>>
    ELSE <<>>

snapshotBytes(g) == SetUint32(g.tick) \o <<g.digest>>

RestoreValid(bytes) == Len(bytes) = 5 /\ bytes[5] < DigestMod

restoreBytes(g, bytes) ==
    IF RestoreValid(bytes)
    THEN [tick |-> GetUint32(bytes, 0), digest |-> bytes[5]]
    ELSE g

\* the view projection of the game, as parsed from core.viewJson()
viewJson(g) == <<g.tick, g.digest>>

\* values of Date.now() handed to ping()
Timestamps == {5, 300}

\* ------------------------------------------------------------- state
VARIABLES
    currentTick,          \* Lockstep.currentTick, per side
    isRunning,            \* Lockstep.isRunning, per side
    localInputBuffer,     \* Lockstep.localInputBuffer, per side
    remoteInputBuffer,    \* Lockstep.remoteInputBuffer, per side
    core,                 \* the simulation behind Lockstep.core, per side
    isConnected,          \* PeerTransport.isConnected, per side
    net,                  \* bytes in flight towards each side
    stepLog,              \* core.step calls of each side since its start() or the last restore
    peers,                \* the sides whose engine is part of the run
    watch,                \* what the run records: "calls" (obs), "steps" (stepLog, resynced)
    resynced,             \* a snapshot has been applied
    lost,                 \* the input messages lost by LoseInput
    obs,                  \* what the last handler call did (calls made, error escaped)
    app                   \* the page around the engines: GameStateManager and the globals of main.ts

vars == <<currentTick, isRunning, localInputBuffer, remoteInputBuffer, core,
          isConnected, net, stepLog, peers, watch, resynced, lost, obs, app>>

\* A PeerTransport in guest mode: peer (TRUE when not null), connection (0 when
\* null, else the index in conns of the DataConnection it holds), conns (the
\* state of every DataConnection made by peer.connect, oldest first), the
\* attempts counter of connectToHostWithRetry, its pending setTimeout calls of
\* attemptConnection (retryTimers) and of the 10-second check
\* (attemptTimeouts), its isConnected flag, and whether close() has been
\* called.
NoTransport ==
    [peer |-> FALSE, connection |-> 0, conns |-> <<>>, isConnected |-> FALSE, attempts |-> 0,
     retryTimers |-> 0, attemptTimeouts |-> 0, closed |-> FALSE]

\* The Host and Join screens of main.ts.  attempts: one record for every run of
\* initializeHostMode or of the join handler, oldest first, with its mode
\* ("host" or "join"), its phase ("creating" while createHost / createGuest is
\* awaited, "polling" while a checkConnection timer is pending, "ended" once
\* checkConnection has returned without re-arming, "failed" when the await
\* threw), the state of the transport its closure holds (open: isOpen() is
\* true, closed: close() was called), cancelled (the user left the screen
\* while it was pending), polls (checkConnection runs since then, counted up
\* to MaxPolls) and started (its startNetworkedGame call began a game).
\* current: the attempt whose transport currentTransport holds, 0 when null.
NoLobby == [attempts |-> <<>>, current |-> 0]

\* GameStateManager: gameLoopRunning, currentGameMode, tickCounter, the gameLoop closures
\* with a pending animation-frame request (loops), the tick of the WASM game
\* (wasmTick: step calls since reset_match) and the tick argument of the last
\* step call (stepped, -1 before any).  main.ts: lockstep and currentTransport
\* (TRUE when not null), networkingMode, screenManager.currentScreen and
\* whether networkGameLoop has a pending animation-frame request.
NoApp ==
    [gameLoopRunning |-> FALSE, currentGameMode |-> "null", tickCounter |-> 0,
     loops |-> 0, wasmTick |-> 0, stepped |-> -1, lockstep |-> FALSE, currentTransport |-> FALSE,
     networkingMode |-> "local", currentScreen |-> "ModeSelect",
     networkGameLoop |-> FALSE, transport |-> NoTransport, lobby |-> NoLobby]

\* op: the handler, side: its engine, arg: the bytes it was called with,
\* steps / sent / restored: its calls to core.step, transport.send and
\* core.restoreBytes, threw: whether an error escaped it, view and events:
\* the view and the events list it returned (tick() only)
NoObs ==
    [op |-> "none", side |-> Left, arg |-> <<>>, steps |-> <<>>, sent |-> <<>>,
     restored |-> <<>>, threw |-> FALSE, view |-> <<>>, events |-> <<>>]

Obs(op, p, arg, steps, sent, restored, threw) ==
    IF "calls" \notin watch THEN NoObs
    ELSE [op |-> op, side |-> p, arg |-> arg, steps |-> steps, sent |-> sent,
          restored |-> restored, threw |-> threw, view |-> <<>>, events |-> <<>>]

ObsView(o, view) == IF "calls" \notin watch THEN o ELSE [o EXCEPT !.view = view]
ObsEvents(o, events) == IF "calls" \notin watch THEN o ELSE [o EXCEPT !.events = events]

\* PeerTransport.send: throws when not connected, otherwise hands the bytes
\* to the data connection.
TransportSend(n, p, bytes) ==
    IF isConnected[p] /\ Other(p) \in peers
    THEN [n EXCEPT ![Other(p)] = @ \cup {bytes}]
    ELSE n

\* PeerTransport.send raising "Transport not connected"
SendThrows(p) == ~isConnected[p]

\* (mutation) a send without its try/catch: the error leaves the caller
SendRethrown(thrown) == thrown

\* try { transport.send(...) } catch: the error is logged, none leaves the
\* caller
SendCaught(thrown) == FALSE

\* ------------------------------------------------------------- Lockstep
\* constructor: currentTick = core.getCurrentTick(), not running, empty buffers
InitEngines ==
    /\ core = [p \in Side |-> NewGame]
    /\ currentTick = [p \in Side |-> NewGame.tick]
    /\ isRunning = [p \in Side |-> FALSE]
    /\ localInputBuffer = [p \in Side |-> EmptyMap]
    /\ remoteInputBuffer = [p \in Side |-> EmptyMap]
    /\ stepLog = [p \in Side |-> <<>>]
    /\ net = [p \in Side |-> {}]
    /\ obs = NoObs
    /\ app = NoApp

\* one engine of either side, its peer played by the environment
Init ==
    /\ InitEngines
    /\ isConnected = [p \in Side |-> TRUE]
    /\ peers \in {{Left}, {Right}}
    /\ watch = {"calls"}
    /\ resynced = FALSE
    /\ lost = {}

\* (mutation) a transport that always reports open
AlwaysOpen(p) == TRUE

\* PeerTransport.isOpen(): connected, with the data connection open
isOpen(p) == isConnected[p]

start(p) ==
    /\ p \in peers
    /\ IF ~isOpen(p)
       THEN /\ obs' = Obs("start", p, <<>>, <<>>, <<>>, <<>>, TRUE)
            /\ UNCHANGED <<currentTick, isRunning, localInputBuffer, remoteInputBuffer, stepLog>>
       ELSE /\ isRunning' = [isRunning EXCEPT ![p] = TRUE]
            /\ currentTick' = [currentTick EXCEPT ![p] = core[p].tick]
            /\ localInputBuffer' = [localInputBuffer EXCEPT ![p] = EmptyMap]
            /\ remoteInputBuffer' = [remoteInputBuffer EXCEPT ![p] = EmptyMap]
            /\ stepLog' = [stepLog EXCEPT ![p] = <<>>]
            /\ obs' = Obs("start", p, <<>>, <<>>, <<>>, <<>>, FALSE)
    /\ UNCHANGED <<core, isConnected, net, peers, watch, app, resynced, lost>>

\* the fields of the engine of side p
Engine(p) ==
    [isRunning |-> isRunning[p], currentTick |-> currentTick[p],
     localInputBuffer |-> localInputBuffer[p],
     remoteInputBuffer |-> remoteInputBuffer[p], core |-> core[p]]

\* (mutation) stop() flipping the running flag
StoppedToggling(e) ==
    [e EXCEPT !.isRunning = ~e.isRunning, !.localInputBuffer = EmptyMap,
              !.remoteInputBuffer = EmptyMap]

\* what stop() makes of an engine: not running, both buffers cleared
Stopped(e) ==
    [e EXCEPT !.isRunning = FALSE, !.localInputBuffer = EmptyMap,
              !.remoteInputBuffer = EmptyMap]

stop(p) ==
    /\ p \in peers
    /\ isRunning' = [isRunning EXCEPT ![p] = Stopped(Engine(p)).isRunning]
    /\ localInputBuffer' = [localInputBuffer EXCEPT ![p] = Stopped(Engine(p)).localInputBuffer]
    /\ remoteInputBuffer' = [remoteInputBuffer EXCEPT ![p] = Stopped(Engine(p)).remoteInputBuffer]
    /\ obs' = Obs("stop", p, <<>>, <<>>, <<>>, <<>>, FALSE)
    /\ UNCHANGED <<currentTick, core, isConnected, net, stepLog, peers, watch, app, resynced, lost>>

\* (mutation) the message stamped with the tick after the cursor
LocalPairNextTick(p, t, input) ==
    [tick |-> t + 1,
     a |-> IF p = Left THEN input ELSE ZeroInput,
     b |-> IF p = Left THEN ZeroInput ELSE input]

\* (mutation) the local input written into both fields of the pair
LocalPairBothFields(p, t, input) == [tick |-> t, a |-> input, b |-> input]

\* the pair onLocalInput sends: the local input in the local side's field and
\* the zero placeholder in the other
LocalPair(p, t, input) ==
    [tick |-> t,
     a |-> IF p = Left THEN input ELSE ZeroInput,
     b |-> IF p = Left THEN ZeroInput ELSE input]

onLocalInput(p, input) ==
    /\ p \in peers
    /\ IF ~isRunning[p]
       THEN /\ obs' = Obs("onLocalInput", p, <<>>, <<>>, <<>>, <<>>, TRUE)
            /\ UNCHANGED <<localInputBuffer, net>>
       ELSE LET wireMsg == encodeInputPair(LocalPair(p, currentTick[p], input)) IN
            /\ localInputBuffer' = [localInputBuffer EXCEPT ![p] = MapSet(@, currentTick[p], input)]
            /\ net' = TransportSend(net, p, wireMsg)
            /\ obs' = Obs("onLocalInput", p, <<>>, <<>>, <<wireMsg>>, <<>>,
                           SendCaught(SendThrows(p)))
    /\ UNCHANGED <<currentTick, isRunning, remoteInputBuffer, core, isConnected, stepLog, peers, watch, app, resynced, lost>>

\* (mutation) the engine reading its own side's field of a received pair
OwnField(p, inputPair) == IF p = Left THEN inputPair.a ELSE inputPair.b

\* the remote side's field of a received pair
RemoteField(p, inputPair) == IF p = Left THEN inputPair.b ELSE inputPair.a

\* (mutation) the remote input filed under the cursor instead of its own tick
KeyIsCursor(p, inputPair) == currentTick[p]

\* the key a received pair is buffered under
RemoteKey(p, inputPair) == inputPair.tick

\* (mutation) the cursor left alone by a restore
CursorKept(cursor, g) == cursor

\* CoreAdapter.getCurrentTick() as assigned to the cursor after a restore
CursorAfterRestore(cursor, g) == g.tick

\* (mutation) the reply stamped with a time of the replier's own
PongOwnTimestamp(wireMsg) == 5

\* the timestamp the automatic reply carries: the one received
PongTimestamp(wireMsg) == wireMsg.timestamp

\* (mutation) a handler that processes messages whether running or not
NeverDropped(p) == FALSE

\* onNetMessage returning at once: the engine is not running
Dropped(p) == ~isRunning[p]

\* onNetMessage(bytes) of side p; n is the network once the bytes have left it
onNetMessage(p, bytes, n, op) ==
    LET wireMsg == decode(bytes) IN
    IF Dropped(p) \/ wireMsg.type = "error"
    THEN /\ net' = n
         /\ obs' = Obs(op, p, bytes, <<>>, <<>>, <<>>, FALSE)
         /\ UNCHANGED <<currentTick, isRunning, localInputBuffer, remoteInputBuffer, core,
                        isConnected, stepLog, peers, watch, app, resynced, lost>>
    ELSE IF wireMsg.type = "input_pair"
    THEN /\ remoteInputBuffer' = [remoteInputBuffer EXCEPT
                ![p] = MapSet(@, RemoteKey(p, wireMsg.inputPair),
                             RemoteField(p, wireMsg.inputPair))]
         /\ net' = n
         /\ obs' = Obs(op, p, bytes, <<>>, <<>>, <<>>, FALSE)
         /\ UNCHANGED <<currentTick, isRunning, localInputBuffer, core, isConnected, stepLog, peers, watch, app, resynced, lost>>
    ELSE IF wireMsg.type = "snapshot"
    THEN \* restoreBytes on bytes that are no snapshot either raises (caught by
         \* the handler, cursor not assigned) or leaves the game as it is
         /\ \E raised \in IF RestoreValid(wireMsg.data) THEN {FALSE} ELSE BOOLEAN :
               /\ core' = [core EXCEPT ![p] = restoreBytes(@, wireMsg.data)]
               /\ currentTick' = [currentTick EXCEPT
                      ![p] = IF raised THEN @ ELSE CursorAfterRestore(@, core'[p])]
               /\ stepLog' = IF RestoreValid(wireMsg.data)
                             THEN [q \in Side |-> <<>>] ELSE stepLog
               /\ resynced' = (resynced \/ ("steps" \in watch /\ RestoreValid(wireMsg.data)))
         /\ net' = n
         /\ obs' = Obs(op, p, bytes, <<>>, <<>>, <<wireMsg.data>>, FALSE)
         /\ UNCHANGED <<isRunning, localInputBuffer, remoteInputBuffer, isConnected, peers, watch, app, lost>>
    ELSE \* ping: answer with the same timestamp, re-encoded as a Ping
         LET pong == encodePing(PongTimestamp(wireMsg)) IN
         /\ net' = TransportSend(n, p, pong)
         /\ obs' = Obs(op, p, bytes, <<>>, <<pong>>, <<>>, SendCaught(SendThrows(p)))
         /\ UNCHANGED <<currentTick, isRunning, localInputBuffer, remoteInputBuffer, core,
                        isConnected, stepLog, peers, watch, app, resynced, lost>>

\* (mutation) the two sides' inputs handed to core.step in the wrong order
StepCallSwapped(p) ==
    LET localInput == localInputBuffer[p][currentTick[p]]
        remoteInput == remoteInputBuffer[p][currentTick[p]]
    IN [tick |-> currentTick[p],
        a |-> IF p = Left THEN remoteInput ELSE localInput,
        b |-> IF p = Left THEN localInput ELSE remoteInput]

StepCall(p) ==
    LET localInput == localInputBuffer[p][currentTick[p]]
        remoteInput == remoteInputBuffer[p][currentTick[p]]
    IN [tick |-> currentTick[p],
        a |-> IF p = Left THEN localInput ELSE remoteInput,
        b |-> IF p = Left THEN remoteInput ELSE localInput]

BothInputs(p) ==
    /\ MapHas(localInputBuffer[p], currentTick[p])
    /\ MapHas(remoteInputBuffer[p], currentTick[p])

\* (mutation) stepping as soon as the local input is there, with the
\* placeholder standing in for a missing remote input
TickStepsWithoutRemote(p) ==
    IF isRunning[p] /\ MapHas(localInputBuffer[p], currentTick[p])
    THEN LET localInput == localInputBuffer[p][currentTick[p]]
             remoteInput == IF MapHas(remoteInputBuffer[p], currentTick[p])
                            THEN remoteInputBuffer[p][currentTick[p]] ELSE ZeroInput
         IN <<[tick |-> currentTick[p],
               a |-> IF p = Left THEN localInput ELSE remoteInput,
               b |-> IF p = Left THEN remoteInput ELSE localInput]>>
    ELSE <<>>

\* the core.step calls one tick() makes: one when running with both inputs
\* for the cursor, none otherwise
TickSteps(p) ==
    IF isRunning[p] /\ BothInputs(p) THEN <<StepCall(p)>> ELSE <<>>

\* (mutation) the event stamped with the cursor after the advance
GameAdvancedAtNewCursor(cursor, gameEvent) ==
    IF gameEvent = <<>> THEN <<>>
    ELSE <<[type |-> "game_advanced", tick |-> cursor, events |-> gameEvent]>>

\* the events list of a tick() that stepped, cursor being the cursor after
\* the advance: one game_advanced entry if step returned an event
GameAdvanced(cursor, gameEvent) ==
    IF gameEvent = <<>> THEN <<>>
    ELSE <<[type |-> "game_advanced", tick |-> cursor - 1, events |-> gameEvent]>>

tick(p) ==
    /\ p \in peers
    /\ IF TickSteps(p) # <<>>
       THEN LET call == TickSteps(p)[1] IN
            /\ currentTick[p] < MaxTick
            /\ core' = [core EXCEPT ![p] = CoreStep(@, call.a, call.b)]
            /\ localInputBuffer' = [localInputBuffer EXCEPT ![p] = MapDelete(@, currentTick[p])]
            /\ remoteInputBuffer' = [remoteInputBuffer EXCEPT ![p] = MapDelete(@, currentTick[p])]
            /\ currentTick' = [currentTick EXCEPT ![p] = @ + 1]
            /\ stepLog' = [stepLog EXCEPT ![p] = IF "steps" \in watch THEN Append(@, call) ELSE @]
            /\ obs' = ObsEvents(ObsView(Obs("tick", p, <<>>, <<call>>, <<>>, <<>>, FALSE),
                                         viewJson(core'[p])),
                                 GameAdvanced(currentTick'[p], StepEvent(core[p], call.a, call.b)))
       ELSE /\ obs' = ObsView(Obs("tick", p, <<>>, <<>>, <<>>, <<>>, FALSE),
                               viewJson(core[p]))
            /\ UNCHANGED <<core, localInputBuffer, remoteInputBuffer, currentTick, stepLog>>
    /\ UNCHANGED <<isRunning, isConnected, net, peers, watch, app, resynced, lost>>

requestSnapshot(p) ==
    /\ p \in peers
    /\ IF ~isRunning[p]
       THEN /\ obs' = Obs("requestSnapshot", p, <<>>, <<>>, <<>>, <<>>, TRUE)
            /\ net' = net
       ELSE LET wireMsg == encodeSnapshot(snapshotBytes(core[p])) IN
            /\ net' = TransportSend(net, p, wireMsg)
            /\ obs' = Obs("requestSnapshot", p, <<>>, <<>>, <<wireMsg>>, <<>>,
                           SendCaught(SendThrows(p)))
    /\ UNCHANGED <<currentTick, isRunning, localInputBuffer, remoteInputBuffer, core,
                   isConnected, stepLog, peers, watch, app, resynced, lost>>

ping(p) ==
    /\ p \in peers
    /\ IF ~isRunning[p]
       THEN /\ obs' = Obs("ping", p, <<>>, <<>>, <<>>, <<>>, TRUE)
            /\ net' = net
       ELSE \E timestamp \in Timestamps :
            LET wireMsg == encodePing(timestamp) IN
            /\ net' = TransportSend(net, p, wireMsg)
            /\ obs' = Obs("ping", p, <<>>, <<>>, <<wireMsg>>, <<>>,
                           SendCaught(SendThrows(p)))
    /\ UNCHANGED <<currentTick, isRunning, localInputBuffer, remoteInputBuffer, core,
                   isConnected, stepLog, peers, watch, app, resynced, lost>>

\* ------------------------------------------------------------- environment
\* the transport hands bytes in flight to the registered message callback
DeliverBytes(p, bytes) ==
    /\ bytes \in net[p]
    /\ onNetMessage(p, bytes, [net EXCEPT ![p] = @ \ {bytes}], "onNetMessage")

Deliver(p) == \E bytes \in net[p] : DeliverBytes(p, bytes)

\* networkGameLoop: the sampled input is submitted while the match lasts and
\* the channel has room
Sample(p) ==
    /\ currentTick[p] < MaxTick
    /\ Cardinality(net[Other(p)]) < MaxInFlight
    /\ \E input \in Inputs : onLocalInput(p, input)

\* ------------------------------------------------------------- specifications
\* bytes the far end of the channel may put on it: well-formed messages of
\* all three kinds with any tick, and malformed ones
GameStates == [tick : 0..MaxTick, digest : 0..(DigestMod - 1)]

\* the two fields of a well-formed pair differ, so the field read is visible
FarPair == <<[axis_y |-> 127, buttons |-> 0], [axis_y |-> -127, buttons |-> 1]>>

WireBytes ==
    {encodeInputPair([tick |-> t, a |-> FarPair[1], b |-> FarPair[2]]) : t \in 0..MaxTick}
    \cup {encodeInputPair([tick |-> 0, a |-> FarPair[2], b |-> FarPair[1]])}
    \cup {encodeSnapshot(snapshotBytes(g)) : g \in GameStates}
    \cup {encodePing(ts) : ts \in Timestamps}
    \cup {<<>>, <<9>>, <<WIRE_MSG_INPUT_PAIR, 0, 0>>, <<WIRE_MSG_PING, 1>>, <<WIRE_MSG_SNAPSHOT>>}
    \cup {encodeInputPair([tick |-> 0, a |-> FarPair[1], b |-> FarPair[2]]) \o <<0>>,
          encodePing(5) \o <<0>>}

\* the message callback is invoked with bytes of the far end's choosing
Receive(p) ==
    \E bytes \in WireBytes :
        /\ p \in peers
        /\ onNetMessage(p, bytes, net, "onNetMessage")

Next ==
    \E p \in Side :
        \/ start(p)
        \/ stop(p)
        \/ \E input \in Inputs : onLocalInput(p, input)
        \/ tick(p)
        \/ requestSnapshot(p)
        \/ ping(p)
        \/ Receive(p)

Spec == Init /\ [][Next]_vars

\* Two engines, Left and Right, both started at the same core tick and joined
\* by the channel: input exchange only (no snapshot, no restart).
Started ==
    /\ core = [p \in Side |-> NewGame]
    /\ currentTick = [p \in Side |-> NewGame.tick]
    /\ isRunning = [p \in Side |-> TRUE]
    /\ localInputBuffer = [p \in Side |-> EmptyMap]
    /\ remoteInputBuffer = [p \in Side |-> EmptyMap]
    /\ stepLog = [p \in Side |-> <<>>]
    /\ isConnected = [p \in Side |-> TRUE]
    /\ obs = NoObs
    /\ app = NoApp

InitPair ==
    /\ Started
    /\ net = [p \in Side |-> {}]
    /\ peers = Side
    /\ watch = {"steps"}
    /\ resynced = FALSE
    /\ lost = {}

NextPair ==
    \E p \in Side :
        \/ Sample(p)
        \/ tick(p)
        \/ Deliver(p)

SpecPair == InitPair /\ [][NextPair]_vars

\* Catch-up: one engine started at tick 0 whose peer's inputs for ticks
\* 0 .. MaxTick-1 are all in flight and arrive in any order, while the game
\* loop keeps submitting local input and calling tick().  The far side takes
\* no step; its localInputBuffer holds the inputs it has sent.
InitCatchUp ==
    /\ core = [p \in Side |-> NewGame]
    /\ currentTick = [p \in Side |-> NewGame.tick]
    /\ isRunning = [p \in Side |-> TRUE]
    /\ remoteInputBuffer = [p \in Side |-> EmptyMap]
    /\ stepLog = [p \in Side |-> <<>>]
    /\ isConnected = [p \in Side |-> TRUE]
    /\ obs = NoObs
    /\ app = NoApp
    /\ \E p \in Side : \E script \in [0..(MaxTick - 1) -> Inputs] :
          /\ peers = {p}
          /\ localInputBuffer = [q \in Side |-> IF q = p THEN EmptyMap ELSE script]
          /\ net = [q \in Side |->
                      IF q = p
                      THEN {encodeInputPair(LocalPair(Other(p), t, script[t])) :
                                t \in 0..(MaxTick - 1)}
                      ELSE {}]
    /\ watch = {"steps"}
    /\ resynced = FALSE
    /\ lost = {}

NextCatchUp ==
    \E p \in Side :
        \/ \E input \in Inputs : onLocalInput(p, input)
        \/ tick(p)
        \/ Deliver(p)

FairCatchUp ==
    /\ InitCatchUp
    /\ [][NextCatchUp]_vars
    /\ \A p \in Side :
          /\ WF_vars(\E input \in Inputs : onLocalInput(p, input))
          /\ WF_vars(tick(p))
          /\ WF_vars(Deliver(p))

\* One lost input: two started engines exchanging inputs over a channel that
\* loses a single InputPair message and delivers every other one.
\* LoseInput: the bytes of one message never reach the receiver's callback.
LoseInput(p) ==
    /\ lost = {}
    /\ \E bytes \in net[p] :
          /\ decode(bytes).type = "input_pair"
          /\ net' = [net EXCEPT ![p] = @ \ {bytes}]
          /\ lost' = {[to |-> p, tick |-> decode(bytes).inputPair.tick]}
    /\ UNCHANGED <<currentTick, isRunning, localInputBuffer, remoteInputBuffer, core,
                   isConnected, stepLog, peers, watch, app, resynced, obs>>

InitLoss ==
    /\ Started
    /\ net = [p \in Side |-> {}]
    /\ peers = Side
    /\ watch = {}
    /\ resynced = FALSE
    /\ lost = {}

NextLoss ==
    \E p \in Side :
        \/ Sample(p)
        \/ tick(p)
        \/ Deliver(p)
        \/ LoseInput(p)

\* the input messages side q can send
InputBytes(q) ==
    {encodeInputPair(LocalPair(q, t, input)) : t \in 0..(MaxTick - 1), input \in Inputs}

FairLoss ==
    /\ InitLoss
    /\ [][NextLoss]_vars
    /\ \A p \in Side :
          /\ WF_vars(Sample(p))
          /\ WF_vars(tick(p))
          /\ \A bytes \in InputBytes(Other(p)) : WF_vars(DeliverBytes(p, bytes))

\* Resync: two started engines exchanging inputs, one of which pushes its
\* snapshot to the other once.
PushSnapshot(p) ==
    /\ ~resynced
    /\ net[Other(p)] = {}
    /\ \A bytes \in net[p] : decode(bytes).type # "snapshot"
    /\ requestSnapshot(p)

NextResync ==
    \E p \in Side :
        \/ Sample(p)
        \/ tick(p)
        \/ Deliver(p)
        \/ PushSnapshot(p)

SpecResync == InitPair /\ [][NextResync]_vars

\* One engine whose data connection opens and closes while it is used: the
\* game-loop operations, snapshot pushes and received inputs, plus the
\* connection events of PeerTransport.
ConnOpen(p) ==
    /\ p \in peers
    /\ ~isConnected[p]
    /\ isConnected' = [isConnected EXCEPT ![p] = TRUE]
    /\ obs' = Obs("open", p, <<>>, <<>>, <<>>, <<>>, FALSE)
    /\ UNCHANGED <<currentTick, isRunning, localInputBuffer, remoteInputBuffer, core,
                   net, stepLog, peers, watch, app, resynced, lost>>

ConnClose(p) ==
    /\ p \in peers
    /\ isConnected[p]
    /\ isConnected' = [isConnected EXCEPT ![p] = FALSE]
    /\ obs' = Obs("close", p, <<>>, <<>>, <<>>, <<>>, FALSE)
    /\ UNCHANGED <<currentTick, isRunning, localInputBuffer, remoteInputBuffer, core,
                   net, stepLog, peers, watch, app, resynced, lost>>

\* the far end's input for some tick arrives (while the connection is open)
ReceiveInput(p) ==
    \E t \in 0..MaxTick :
        /\ p \in peers
        /\ isConnected[p]
        /\ onNetMessage(p, encodeInputPair([tick |-> t, a |-> FarPair[1], b |-> FarPair[2]]),
                        net, "onNetMessage")

InitLink ==
    /\ InitEngines
    /\ isConnected = [p \in Side |-> FALSE]
    /\ peers \in {{Left}, {Right}}
    /\ watch = {"calls"}
    /\ resynced = FALSE
    /\ lost = {}

NextLink ==
    \E p \in Side :
        \/ ConnOpen(p)
        \/ ConnClose(p)
        \/ start(p)
        \/ stop(p)
        \/ \E input \in Inputs : onLocalInput(p, input)
        \/ tick(p)
        \/ requestSnapshot(p)
        \/ ReceiveInput(p)

SpecLink == InitLink /\ [][NextLink]_vars

\* Failing sends: one engine whose transport closes and reopens under it
\* while it runs the game loop, pushes snapshots, pings and answers Pings.
ReceivePing(p) ==
    \E timestamp \in Timestamps :
        /\ p \in peers
        /\ onNetMessage(p, encodePing(timestamp), net, "onNetMessage")

NextSendFail ==
    \E p \in Side :
        \/ ConnOpen(p)
        \/ ConnClose(p)
        \/ start(p)
        \/ \E input \in Inputs : onLocalInput(p, input)
        \/ requestSnapshot(p)
        \/ ping(p)
        \/ ReceivePing(p)
        \/ ReceiveInput(p)
        \/ tick(p)

SpecSendFail == InitLink /\ [][NextSendFail]_vars

\* An unreliable channel: two started engines exchanging inputs over a channel
\* that may hold several messages, deliver them in any order, deliver one
\* more than once and lose any of them.  No snapshot, no restart.
\* (the input values play no part in what the channel does to the cursors
\* and buffers: one value is submitted)
Submit(p) ==
    /\ currentTick[p] < MaxTick
    /\ Cardinality(net[Other(p)]) <= MaxInFlight
    /\ onLocalInput(p, [axis_y |-> 127, buttons |-> 0])

\* a message is handed to the callback and stays in flight (a duplicate)
Redeliver(p) ==
    \E bytes \in net[p] : onNetMessage(p, bytes, net, "onNetMessage")

\* a message in flight never arrives
Drop(p) ==
    /\ \E bytes \in net[p] : net' = [net EXCEPT ![p] = @ \ {bytes}]
    /\ UNCHANGED <<currentTick, isRunning, localInputBuffer, remoteInputBuffer, core,
                   isConnected, stepLog, peers, watch, app, resynced, lost, obs>>

\* Reliable delivery: the same two engines, their game loops submitting
\* input and calling tick() again and again, over a channel that delivers
\* every message.
NextReliable ==
    \E p \in Side :
        \/ Submit(p)
        \/ tick(p)
        \/ Deliver(p)

FairReliable ==
    /\ InitLoss
    /\ [][NextReliable]_vars
    /\ \A p \in Side :
          /\ WF_vars(Submit(p))
          /\ WF_vars(tick(p))
          /\ \A bytes \in InputBytes(Other(p)) : WF_vars(DeliverBytes(p, bytes))

\* One ping: the same two engines over the reliable channel, right after one
\* of them has called ping() once; the game goes on and every message,
\* Pings included, is delivered.
PingBytes == {encodePing(timestamp) : timestamp \in Timestamps}

InitPinged ==
    /\ Started
    /\ \E p \in Side : \E timestamp \in Timestamps :
          net = [q \in Side |-> IF q = Other(p) THEN {encodePing(timestamp)} ELSE {}]
    /\ peers = Side
    /\ watch = {}
    /\ resynced = FALSE
    /\ lost = {}

FairPinged ==
    /\ InitPinged
    /\ [][NextReliable]_vars
    /\ \A p \in Side :
          /\ WF_vars(Submit(p))
          /\ WF_vars(tick(p))
          /\ \A bytes \in InputBytes(Other(p)) \cup PingBytes :
                WF_vars(DeliverBytes(p, bytes))

NextChannel ==
    \E p \in Side :
        \/ Submit(p)
        \/ tick(p)
        \/ Deliver(p)
        \/ Redeliver(p)
        \/ Drop(p)

SpecChannel == InitLoss /\ [][NextChannel]_vars

\* Local game modes: GameStateManager driven by the page (mode buttons,
\* rematch, back to menu) and by animation frames.
LocalModes == {"VsLocal2", "VsAI", "VsWall"}

EngineOnly == <<currentTick, isRunning, localInputBuffer, remoteInputBuffer, core,
                isConnected, net, stepLog, peers, watch, resynced, lost, obs>>

\* startGameLoop() applied to the manager a: nothing when a loop is running,
\* otherwise the flag set, the counter zeroed and a closure scheduled
startGameLoop(a) ==
    IF a.gameLoopRunning THEN a
    ELSE [a EXCEPT !.gameLoopRunning = TRUE, !.tickCounter = 0, !.loops = @ + 1]

startGame(mode) ==
    /\ app.gameLoopRunning \/ app.loops < MaxLoops
    /\ app' = startGameLoop([app EXCEPT !.currentGameMode = mode, !.wasmTick = 0,
                                        !.currentScreen = "Game"])
    /\ UNCHANGED EngineOnly

\* what stopGame() makes of the page a
GameStopped(a) ==
    [a EXCEPT !.gameLoopRunning = FALSE, !.currentGameMode = "null",
              !.tickCounter = 0, !.currentScreen = "ModeSelect"]

stopGame ==
    /\ app' = GameStopped(app)
    /\ UNCHANGED EngineOnly

rematch ==
    /\ app.currentGameMode # "null"
    /\ startGame(app.currentGameMode)

\* one animation-frame callback of a gameLoop closure: it ends when the flag
\* is down; before its frame time has elapsed it only asks for the next
\* frame; otherwise it steps the game, handles a game over reported by the
\* view (over), counts the tick and asks for the next frame; an error raised
\* while reading the input ends the closure with the flag still up
gameLoop ==
    /\ app.loops > 0
    /\ \/ /\ ~app.gameLoopRunning
          /\ app' = [app EXCEPT !.loops = @ - 1]
       \/ /\ app.gameLoopRunning
          /\ app' = app
       \/ /\ app.gameLoopRunning
          /\ app' = [app EXCEPT !.loops = @ - 1]
       \/ /\ app.gameLoopRunning
          /\ app.tickCounter < MaxTick
          /\ app.wasmTick < MaxTick
          /\ \E over \in BOOLEAN :
                app' = [app EXCEPT !.stepped = app.tickCounter,
                                   !.wasmTick = @ + 1,
                                   !.tickCounter = @ + 1,
                                   !.gameLoopRunning = ~over,
                                   !.currentScreen = IF over THEN "GameOver" ELSE @]
    /\ UNCHANGED EngineOnly

InitLocal ==
    /\ InitEngines
    /\ isConnected = [p \in Side |-> FALSE]
    /\ peers = {}
    /\ watch = {}
    /\ resynced = FALSE
    /\ lost = {}

NextLocal ==
    \/ \E mode \in LocalModes : startGame(mode)
    \/ stopGame
    \/ rematch
    \/ gameLoop

SpecLocal == InitLocal /\ [][NextLocal]_vars

\* A networked game: one page whose engine was started by startNetworkedGame
\* and is driven by networkGameLoop, while inputs arrive, the data connection
\* may close and the player may go back to the menu.
\* (mutation) a cleanup that keeps the transport
cleanupKeepingTransport(a) ==
    [a EXCEPT !.lockstep = FALSE, !.networkingMode = "local"]

\* what cleanupNetworking() makes of the globals of main.ts
cleanupNetworking(a) ==
    [a EXCEPT !.lockstep = FALSE, !.currentTransport = FALSE, !.networkingMode = "local"]

\* cleanupNetworking() followed by gameStateManager.stopGame(): the engine,
\* if there is one, is stopped and the transport, if there is one, closed
LeaveNetworkedGame(p) ==
    /\ app' = [GameStopped(cleanupNetworking(app)) EXCEPT !.networkGameLoop = app.networkGameLoop]
    /\ isRunning' = [isRunning EXCEPT ![p] = IF app.lockstep THEN FALSE ELSE @]
    /\ localInputBuffer' = [localInputBuffer EXCEPT ![p] = IF app.lockstep THEN EmptyMap ELSE @]
    /\ remoteInputBuffer' = [remoteInputBuffer EXCEPT ![p] = IF app.lockstep THEN EmptyMap ELSE @]
    /\ isConnected' = [isConnected EXCEPT ![p] = IF app.currentTransport THEN FALSE ELSE @]

\* the back-to-menu button of the game screen
BackToMenu(p) ==
    /\ p \in peers
    /\ app.currentScreen = "Game"
    /\ LeaveNetworkedGame(p)
    /\ obs' = Obs("backToMenu", p, <<>>, <<>>, <<>>, <<>>, FALSE)
    /\ UNCHANGED <<currentTick, core, net, stepLog, peers, watch, resynced, lost>>

\* one animation-frame callback of networkGameLoop: return if there is no
\* engine; submit the local input when the tick interval has elapsed (due);
\* tick(); on a transport that is no longer open clean up, stop the game and
\* return; otherwise ask for the next frame while the networked game is shown
networkGameLoop(p) ==
    /\ p \in peers
    /\ app.networkGameLoop
    /\ IF ~app.lockstep
       THEN /\ app' = [app EXCEPT !.networkGameLoop = FALSE]
            /\ obs' = Obs("networkGameLoop", p, <<>>, <<>>, <<>>, <<>>, FALSE)
            /\ UNCHANGED <<currentTick, isRunning, localInputBuffer, remoteInputBuffer,
                           core, isConnected, net>>
       ELSE \E due \in BOOLEAN : \E input \in Inputs :
            LET wireMsg == encodeInputPair(LocalPair(p, currentTick[p], input))
                local == IF due THEN MapSet(localInputBuffer[p], currentTick[p], input)
                         ELSE localInputBuffer[p]
                stepping == /\ isRunning[p]
                            /\ MapHas(local, currentTick[p])
                            /\ MapHas(remoteInputBuffer[p], currentTick[p])
                localInput == local[currentTick[p]]
                remoteInput == remoteInputBuffer[p][currentTick[p]]
                call == [tick |-> currentTick[p],
                         a |-> IF p = Left THEN localInput ELSE remoteInput,
                         b |-> IF p = Left THEN remoteInput ELSE localInput]
            IN
            /\ due => (isRunning[p] /\ currentTick[p] < MaxTick)
            /\ stepping => currentTick[p] < MaxTick
            /\ net' = IF due THEN TransportSend(net, p, wireMsg) ELSE net
            /\ core' = [core EXCEPT ![p] = IF stepping THEN CoreStep(@, call.a, call.b) ELSE @]
            /\ currentTick' = [currentTick EXCEPT ![p] = IF stepping THEN @ + 1 ELSE @]
            /\ obs' = Obs("networkGameLoop", p, <<>>, IF stepping THEN <<call>> ELSE <<>>,
                           IF due THEN <<wireMsg>> ELSE <<>>, <<>>, FALSE)
            /\ IF ~isOpen(p)
               THEN /\ app' = [GameStopped(cleanupNetworking(app)) EXCEPT !.networkGameLoop = FALSE]
                    /\ isRunning' = [isRunning EXCEPT ![p] = FALSE]
                    /\ localInputBuffer' = [localInputBuffer EXCEPT ![p] = EmptyMap]
                    /\ remoteInputBuffer' = [remoteInputBuffer EXCEPT ![p] = EmptyMap]
                    /\ isConnected' = [isConnected EXCEPT ![p] = FALSE]
               ELSE /\ app' = [app EXCEPT !.networkGameLoop =
                                   (app.networkingMode # "local" /\ app.currentScreen = "Game")]
                    /\ localInputBuffer' = [localInputBuffer EXCEPT
                           ![p] = IF stepping THEN MapDelete(local, currentTick[p]) ELSE local]
                    /\ remoteInputBuffer' = [remoteInputBuffer EXCEPT
                           ![p] = IF stepping THEN MapDelete(@, currentTick[p]) ELSE @]
                    /\ UNCHANGED <<isRunning, isConnected>>
    /\ UNCHANGED <<stepLog, peers, watch, resynced, lost>>

\* the state startNetworkedGame leaves: engine created and started on the
\* open transport, mode set from the side, game screen shown, loop requested
InitNetGame ==
    /\ core = [p \in Side |-> NewGame]
    /\ currentTick = [p \in Side |-> NewGame.tick]
    /\ localInputBuffer = [p \in Side |-> EmptyMap]
    /\ remoteInputBuffer = [p \in Side |-> EmptyMap]
    /\ stepLog = [p \in Side |-> <<>>]
    /\ net = [p \in Side |-> {}]
    /\ obs = NoObs
    /\ \E p \in Side :
          /\ peers = {p}
          /\ isRunning = [q \in Side |-> q = p]
          /\ isConnected = [q \in Side |-> q = p]
          /\ app = [NoApp EXCEPT !.lockstep = TRUE, !.currentTransport = TRUE,
                                 !.networkingMode = IF p = Left THEN "host" ELSE "join",
                                 !.currentScreen = "Game", !.networkGameLoop = TRUE]
    /\ watch = {"calls"}
    /\ resynced = FALSE
    /\ lost = {}

NextNetGame ==
    \E p \in Side :
        \/ networkGameLoop(p)
        \/ ReceiveInput(p)
        \/ ConnClose(p)
        \/ BackToMenu(p)

SpecNetGame == InitNetGame /\ [][NextNetGame]_vars

\* An engine between construction, start() and stop(): one engine on an open
\* transport that is started and stopped at will while the game loop runs
\* and messages of every kind arrive, before start() and after stop() too.
IdleBytes ==
    {encodeInputPair([tick |-> t, a |-> FarPair[1], b |-> FarPair[2]]) : t \in 0..MaxTick}
    \cup {encodeSnapshot(snapshotBytes([tick |-> 1, digest |-> 1])), encodePing(300), <<9>>}

ReceiveIdle(p) ==
    \E bytes \in IdleBytes :
        /\ p \in peers
        /\ onNetMessage(p, bytes, net, "onNetMessage")

NextIdle ==
    \E p \in Side :
        \/ start(p)
        \/ stop(p)
        \/ \E input \in Inputs : onLocalInput(p, input)
        \/ tick(p)
        \/ ReceiveIdle(p)

SpecIdle == Init /\ [][NextIdle]_vars

\* The codec on its own: WireMsg.encodeInputPair, encodeSnapshot, encodePing
\* and decode applied to values and buffers of the caller's choosing; obs
\* holds the last call, its argument, the bytes and what decode made of them.
\* u32 values at the byte boundaries, up to 2^31 - 1
CodecTicks == {0, 1, 255, 256, 65535, 65536, 16777215, 16777216, 2147483647}
CodecAxes == {-128, -1, 0, 1, 127}
CodecButtons == {0, 1, 255}
CodecInputs == [axis_y : CodecAxes, buttons : CodecButtons]
CodecPairs ==
    [tick : CodecTicks, a : CodecInputs,
     b : {[axis_y |-> -128, buttons |-> 255], [axis_y |-> 127, buttons |-> 0], ZeroInput}]

CodecBytes == {0, WIRE_MSG_INPUT_PAIR, WIRE_MSG_SNAPSHOT, WIRE_MSG_PING, 255}

RECURSIVE Seqs(_, _)
Seqs(S, n) ==
    IF n = 0 THEN {<<>>}
    ELSE Seqs(S, n - 1) \cup {Append(q, x) : q \in {r \in Seqs(S, n - 1) : Len(r) = n - 1}, x \in S}

CodecPayloads == Seqs(CodecBytes, MaxPayload)

\* raw buffers: every tag-like first byte with every length up to MaxRaw
\* (the filling bytes keep a decoded u32 below 2^31)
Fill(n, v) == [i \in 1..n |-> v]
RawBuffers ==
    {<<>>} \cup {<<tag>> \o Fill(n, v) : tag \in CodecBytes \cup {4}, n \in 0..(MaxRaw - 1), v \in {0, 127}}

CodecCall(op, value, bytes) ==
    /\ obs' = [op |-> op, value |-> value, bytes |-> bytes, decoded |-> decode(bytes)]
    /\ UNCHANGED <<currentTick, isRunning, localInputBuffer, remoteInputBuffer, core,
                   isConnected, net, stepLog, peers, watch, app, resynced, lost>>

CodecInputPair == \E x \in CodecPairs : CodecCall("encodeInputPair", x, encodeInputPair(x))
CodecSnapshot == \E s \in CodecPayloads : CodecCall("encodeSnapshot", s, encodeSnapshot(s))
CodecPing == \E t \in CodecTicks : CodecCall("encodePing", t, encodePing(t))
CodecDecode == \E bytes \in RawBuffers : CodecCall("decode", bytes, bytes)

InitCodec ==
    /\ InitEngines
    /\ isConnected = [p \in Side |-> FALSE]
    /\ peers = {}
    /\ watch = {"codec"}
    /\ resynced = FALSE
    /\ lost = {}

NextCodec == CodecInputPair \/ CodecSnapshot \/ CodecPing \/ CodecDecode

SpecCodec == InitCodec /\ [][NextCodec]_vars

\* Timestamps beyond 32 bits: numbers of up to 48 bits written as three
\* 16-bit limbs, least significant first, so that the millisecond clock
\* ping() passes to encodePing is within range.
Limbs == {0, 1, 255, 256, 32767, 32768, 65535}

\* Date.now() on 2026-11-01: 1793563200000
ClockNow == <<35328, 39090, 417>>

WideTimestamps == {<<l0, l1, l2>> : l0 \in Limbs, l1 \in Limbs, l2 \in Limbs} \cup {ClockNow}

\* (mutation) a value of 2^32 or more stored as the largest u32
ToUint32Saturating(w) == IF w[3] > 0 THEN <<65535, 65535>> ELSE <<w[1], w[2]>>

\* DataView.setUint32 converts its argument to an unsigned 32-bit integer:
\* the two low limbs are kept
ToUint32(w) == <<w[1], w[2]>>

SetUint32Wide(w) ==
    LET u == ToUint32(w) IN <<u[1] % 256, u[1] \div 256, u[2] % 256, u[2] \div 256>>

GetUint32Wide(bytes, off) ==
    <<bytes[off + 1] + 256 * bytes[off + 2], bytes[off + 3] + 256 * bytes[off + 4], 0>>

encodePingWide(w) == <<WIRE_MSG_PING>> \o SetUint32Wide(w)

\* decode() on the bytes of a Ping, the timestamp read as limbs
decodePingWide(bytes) ==
    IF Len(bytes) = 0 THEN DecodeError
    ELSE IF bytes[1] = WIRE_MSG_PING THEN
        IF Len(bytes) # 5 THEN DecodeError
        ELSE [type |-> "ping", timestamp |-> GetUint32Wide(bytes, 1)]
    ELSE DecodeError

CodecPingWide ==
    \E w \in WideTimestamps :
        /\ obs' = [op |-> "encodePing", value |-> w, bytes |-> encodePingWide(w),
                   decoded |-> decodePingWide(encodePingWide(w))]
        /\ UNCHANGED <<currentTick, isRunning, localInputBuffer, remoteInputBuffer, core,
                       isConnected, net, stepLog, peers, watch, app, resynced, lost>>

SpecPingWide == InitCodec /\ [][CodecPingWide]_vars

\* ------------------------------------------------------------- properties
LastCall(op, p) == obs.op = op /\ obs.side = p

\* C1: tick() increases the cursor only when the engine is running and both
\* input buffers hold an entry for the current cursor; every other tick() call
\* leaves the cursor where it was.
TickAdvancesOnlyWithBothInputs ==
    [][\A p \in Side :
          (LastCall("tick", p)' /\ currentTick'[p] # currentTick[p]) =>
              /\ isRunning[p]
              /\ currentTick[p] \in DOMAIN localInputBuffer[p]
              /\ currentTick[p] \in DOMAIN remoteInputBuffer[p]
              /\ currentTick'[p] > currentTick[p]]_vars

TickAdvanced ==
    /\ obs.op = "tick"
    /\ Len(obs.steps) = 1
    /\ currentTick[obs.side] = obs.steps[1].tick + 1

\* C2: whenever both engines have stepped a tick, they passed the same
\* (a, b) input pair to core.step for it.
PeersStepSamePairs ==
    \A i \in 1..Len(stepLog[Left]) : \A j \in 1..Len(stepLog[Right]) :
        stepLog[Left][i].tick = stepLog[Right][j].tick => stepLog[Left][i] = stepLog[Right][j]

\* C3: onLocalInput records the input for the current cursor only if none is
\* buffered for it yet: a buffered local input keeps its value until stepped.
LocalInputRecordedOnce ==
    [][\A p \in Side :
          (LastCall("onLocalInput", p)' /\ currentTick[p] \in DOMAIN localInputBuffer[p]) =>
              /\ currentTick[p] \in DOMAIN localInputBuffer'[p]
              /\ localInputBuffer'[p][currentTick[p]] = localInputBuffer[p][currentTick[p]]]_vars

\* C4: every core.step call passes the core's own current tick; no received
\* bytes can make the cursor differ from the core's tick when step is invoked.
StepTickIsCoreTick ==
    [][\A p \in Side :
          (LastCall("tick", p)' /\ Len(obs'.steps) > 0) =>
              obs'.steps[1].tick = core[p].tick]_vars

\* a step at tick 1 by an engine that still holds its local input for tick 0:
\* a snapshot moved the cursor past it
SteppedAfterSnapshot ==
    /\ obs.op = "tick"
    /\ Len(obs.steps) = 1
    /\ obs.steps[1].tick = 1
    /\ 0 \in DOMAIN localInputBuffer[obs.side]

\* C5: tick() on a running engine holding both inputs for cursor T calls
\* core.step exactly once, with tick T, a = Left's input and b = Right's
\* input, retires the two entries for T and moves the cursor to T + 1; no
\* tick() call steps more than once or moves the cursor by more than one.
TickStepsOnceWithSidesMapped ==
    [][\A p \in Side :
          LastCall("tick", p)' =>
              /\ Len(obs'.steps) <= 1
              /\ currentTick'[p] \in {currentTick[p], currentTick[p] + 1}
              /\ (isRunning[p] /\ currentTick[p] \in DOMAIN localInputBuffer[p]
                               /\ currentTick[p] \in DOMAIN remoteInputBuffer[p]) =>
                    LET T == currentTick[p]
                        own == localInputBuffer[p][T]
                        far == remoteInputBuffer[p][T]
                    IN /\ obs'.steps = <<[tick |-> T,
                                          a |-> IF p = Left THEN own ELSE far,
                                          b |-> IF p = Right THEN own ELSE far]>>
                       /\ T \notin DOMAIN localInputBuffer'[p]
                       /\ T \notin DOMAIN remoteInputBuffer'[p]
                       /\ \A k \in DOMAIN localInputBuffer[p] \ {T} :
                             k \in DOMAIN localInputBuffer'[p]
                       /\ \A k \in DOMAIN remoteInputBuffer[p] \ {T} :
                             k \in DOMAIN remoteInputBuffer'[p]
                       /\ currentTick'[p] = T + 1]_vars

RightSteppedWithLeftInputFirst ==
    /\ obs.op = "tick"
    /\ obs.side = Right
    /\ Len(obs.steps) = 1
    /\ obs.steps[1].a # obs.steps[1].b

\* C8: a Snapshot message received by a running engine is restored at once:
\* core.restoreBytes gets exactly the bytes after the tag and the cursor is
\* the core's tick when the handler returns, wherever the cursor was before.
SnapshotRestoredAndCursorResynced ==
    [][\A p \in Side :
          (/\ LastCall("onNetMessage", p)'
           /\ isRunning[p]
           /\ Len(obs'.arg) >= 1
           /\ obs'.arg[1] = WIRE_MSG_SNAPSHOT) =>
              /\ obs'.restored = <<Tail(obs'.arg)>>
              /\ core'[p] = restoreBytes(core[p], Tail(obs'.arg))
              /\ currentTick'[p] = core'[p].tick
              /\ obs'.steps = <<>>]_vars

\* a snapshot for tick 0 applied by an engine that had reached tick 1
RestoredBehindCursor ==
    /\ obs.op = "onNetMessage"
    /\ Len(obs.restored) = 1
    /\ RestoreValid(obs.restored[1])
    /\ currentTick[obs.side] = 0
    /\ core[obs.side].tick = 0
    /\ 1 \in DOMAIN localInputBuffer[obs.side]

\* C10: a valid InputPair message for tick K received by a running engine
\* puts the sender's field (b for a Left engine, a for a Right engine) into
\* remoteInputBuffer[K] and changes nothing else: not the other remote
\* entries, the local buffer, the cursor or the core.
InputPairFillsRemoteBufferOnly ==
    [][\A p \in Side :
          (/\ LastCall("onNetMessage", p)'
           /\ isRunning[p]
           /\ Len(obs'.arg) = 9
           /\ obs'.arg[1] = WIRE_MSG_INPUT_PAIR) =>
              LET K == obs'.arg[2] + 256 * obs'.arg[3] + 65536 * obs'.arg[4]
                         + 16777216 * obs'.arg[5]
                  axis == IF p = Left THEN obs'.arg[8] ELSE obs'.arg[6]
                  btn == IF p = Left THEN obs'.arg[9] ELSE obs'.arg[7]
              IN /\ DOMAIN remoteInputBuffer'[p] = DOMAIN remoteInputBuffer[p] \cup {K}
                 /\ remoteInputBuffer'[p][K] =
                        [axis_y |-> IF axis >= 128 THEN axis - 256 ELSE axis, buttons |-> btn]
                 /\ \A k \in DOMAIN remoteInputBuffer[p] \ {K} :
                        remoteInputBuffer'[p][k] = remoteInputBuffer[p][k]
                 /\ localInputBuffer' = localInputBuffer
                 /\ currentTick' = currentTick
                 /\ core' = core
                 /\ obs'.steps = <<>> /\ obs'.restored = <<>> /\ obs'.sent = <<>>]_vars

\* a Right engine has buffered field a of a pair for a tick ahead of its cursor
RightBufferedFieldA ==
    /\ obs.op = "onNetMessage"
    /\ obs.side = Right
    /\ isRunning[Right]
    /\ Len(obs.arg) = 9
    /\ obs.arg[1] = WIRE_MSG_INPUT_PAIR
    /\ obs.arg[2] = 1
    /\ currentTick[Right] = 0
    /\ remoteInputBuffer[Right][1].axis_y = GetInt8(obs.arg[6])

\* C6: catching up from tick 0 on remote inputs delivered in any order, the
\* engine steps ticks 0, 1, 2, ... once each and in that order, every step
\* with the remote input sent for that very tick, and ends with the cursor
\* behind the last of them, having stepped MaxTick times.
CatchUpLogInOrder ==
    \A p \in peers :
        /\ Len(stepLog[p]) = currentTick[p]
        /\ \A i \in 1..Len(stepLog[p]) :
              /\ stepLog[p][i].tick = i - 1
              /\ RemoteField(p, stepLog[p][i]) = localInputBuffer[Other(p)][i - 1]

CaughtUp ==
    \A p \in peers :
        /\ currentTick[p] = MaxTick
        /\ Len(stepLog[p]) = MaxTick
        /\ net[p] = {}

CatchUpStepsEveryTickOnceInOrder == []CatchUpLogInOrder /\ <>CaughtUp

CatchUpDone ==
    \E p \in peers :
        /\ watch = {"steps"}
        /\ peers = {p}
        /\ currentTick[p] = MaxTick
        /\ Len(stepLog[p]) = MaxTick
        /\ stepLog[p][MaxTick].tick = MaxTick - 1

\* C7: when one InputPair message for tick T is lost and every other message
\* is delivered, both cursors eventually pass T.
InputLostFor(t) == \E l \in lost : l.tick = t

BothBeyond(t) == currentTick[Left] > t /\ currentTick[Right] > t

PairsAgreeAfterResync ==
    resynced =>
        \A i \in 1..Len(stepLog[Left]) : \A j \in 1..Len(stepLog[Right]) :
            stepLog[Left][i].tick = stepLog[Right][j].tick =>
                stepLog[Left][i] = stepLog[Right][j]

\* C11: every onLocalInput call on a running engine makes exactly one
\* transport.send call, with an InputPair message whose tick is the cursor,
\* whose local-side field is the input buffered for the cursor after the call
\* and whose other field is the zero placeholder; it does so also when an
\* input for the cursor was buffered already.
OnLocalInputSendsCursorPair ==
    [][\A p \in Side :
          (LastCall("onLocalInput", p)' /\ isRunning[p]) =>
              /\ ~obs'.threw
              /\ Len(obs'.sent) = 1
              /\ Len(obs'.sent[1]) = 9
              /\ obs'.sent[1][1] = WIRE_MSG_INPUT_PAIR
              /\ currentTick[p] \in DOMAIN localInputBuffer'[p]
              /\ LET m == decode(obs'.sent[1]).inputPair
                     own == IF p = Left THEN m.a ELSE m.b
                     far == IF p = Left THEN m.b ELSE m.a
                 IN /\ m.tick = currentTick[p]
                    /\ own = localInputBuffer'[p][currentTick[p]]
                    /\ far = ZeroInput]_vars

\* a Right engine that has stepped tick 0 sends its input for tick 1 in field b
RightSentInputForTickOne ==
    /\ obs.op = "onLocalInput"
    /\ obs.side = Right
    /\ Len(obs.sent) = 1
    /\ currentTick[Right] = 1
    /\ decode(obs.sent[1]).inputPair.tick = 1
    /\ decode(obs.sent[1]).inputPair.b = localInputBuffer[Right][1]

\* C12: a tick() call that finds the local or the remote input for the cursor
\* missing calls core.step not at all, raises no error, leaves the cursor,
\* both buffers and the core as they were and returns the view of the
\* unchanged core: the same view as the tick() call before it returned.
StalledTickChangesNothing ==
    [][\A p \in Side :
          (/\ LastCall("tick", p)'
           /\ \/ currentTick[p] \notin DOMAIN localInputBuffer[p]
              \/ currentTick[p] \notin DOMAIN remoteInputBuffer[p]) =>
              /\ obs'.steps = <<>>
              /\ ~obs'.threw
              /\ currentTick'[p] = currentTick[p]
              /\ localInputBuffer'[p] = localInputBuffer[p]
              /\ remoteInputBuffer'[p] = remoteInputBuffer[p]
              /\ core'[p] = core[p]
              /\ obs'.view = viewJson(core[p])
              /\ LastCall("tick", p) => obs'.view = obs.view]_vars

\* a running engine at tick 1 that holds its own input but not the remote one
\* has called tick() and stalled
StalledWaitingForRemote ==
    /\ obs.op = "tick"
    /\ obs.steps = <<>>
    /\ isRunning[obs.side]
    /\ currentTick[obs.side] = 1
    /\ 1 \in DOMAIN localInputBuffer[obs.side]
    /\ 1 \notin DOMAIN remoteInputBuffer[obs.side]
    /\ obs.view = viewJson(core[obs.side])

\* bytes WireMsg.decode has no message for
Malformed(bytes) ==
    \/ Len(bytes) = 0
    \/ /\ Len(bytes) > 0
       /\ \/ bytes[1] \notin {WIRE_MSG_INPUT_PAIR, WIRE_MSG_SNAPSHOT, WIRE_MSG_PING}
          \/ bytes[1] = WIRE_MSG_INPUT_PAIR /\ Len(bytes) # 9
          \/ bytes[1] = WIRE_MSG_PING /\ Len(bytes) # 5

\* C13: bytes that fail to decode, delivered to a running engine, are
\* discarded: no error escapes the handler, nothing is sent, stepped or
\* restored, and cursor, buffers, running flag and core stay as they were.
MalformedBytesDiscarded ==
    [][\A p \in Side :
          (LastCall("onNetMessage", p)' /\ isRunning[p] /\ Malformed(obs'.arg)) =>
              /\ ~obs'.threw
              /\ obs'.sent = <<>>
              /\ obs'.steps = <<>>
              /\ obs'.restored = <<>>
              /\ currentTick'[p] = currentTick[p]
              /\ localInputBuffer'[p] = localInputBuffer[p]
              /\ remoteInputBuffer'[p] = remoteInputBuffer[p]
              /\ isRunning'[p]
              /\ core'[p] = core[p]
              /\ net' = net]_vars

\* a running engine holding inputs has been handed an InputPair message one
\* byte too long
OverlongPairDiscarded ==
    /\ obs.op = "onNetMessage"
    /\ isRunning[obs.side]
    /\ Len(obs.arg) = 10
    /\ obs.arg[1] = WIRE_MSG_INPUT_PAIR
    /\ DOMAIN localInputBuffer[obs.side] # {}
    /\ DOMAIN remoteInputBuffer[obs.side] = {}

\* the payload length of the snapshots the core produces
SnapshotLen == Len(snapshotBytes(NewGame))

\* C14: decode returns an error for every buffer that is truncated, too long
\* or of unknown tag, a Snapshot message shorter than a snapshot included.
DecodeRejectsEveryWrongLength ==
    obs.op = "decode" =>
        /\ Malformed(obs.bytes) => obs.decoded.type = "error"
        /\ (/\ Len(obs.bytes) > 0
            /\ obs.bytes[1] = WIRE_MSG_SNAPSHOT
            /\ Len(obs.bytes) < 1 + SnapshotLen) => obs.decoded.type = "error"

\* C14, as the code has it: decode returns an error exactly for the empty
\* buffer, an unknown first byte, tag 0x01 with a length other than 9 and tag
\* 0x03 with a length other than 5; for tag 0x02 it returns a snapshot message
\* holding whatever bytes follow the tag, be they none, too few or too many.
DecodeChecksLengthOfFixedSizeMessages ==
    obs.op = "decode" =>
        /\ obs.decoded.type = "error" <=> Malformed(obs.bytes)
        /\ (Len(obs.bytes) > 0 /\ obs.bytes[1] = WIRE_MSG_SNAPSHOT) =>
              /\ obs.decoded.type = "snapshot"
              /\ obs.decoded.data = Tail(obs.bytes)
        /\ (Len(obs.bytes) = 9 /\ obs.bytes[1] = WIRE_MSG_INPUT_PAIR) =>
              obs.decoded.type = "input_pair"
        /\ (Len(obs.bytes) = 5 /\ obs.bytes[1] = WIRE_MSG_PING) =>
              obs.decoded.type = "ping"

\* decode handed a Snapshot tag with two payload bytes
ShortSnapshotDecoded ==
    /\ obs.op = "decode"
    /\ obs.bytes = <<WIRE_MSG_SNAPSHOT, 127, 127>>
    /\ obs.decoded.type = "snapshot"

\* C15: decoding what an encoder produced gives back the encoded value: an
\* input_pair message equal to the pair, a snapshot message whose data is the
\* payload, a ping message with the timestamp.
CodecRoundTrip ==
    /\ obs.op = "encodeInputPair" =>
          obs.decoded = [type |-> "input_pair", inputPair |-> obs.value]
    /\ obs.op = "encodeSnapshot" =>
          obs.decoded = [type |-> "snapshot", data |-> obs.value]
    /\ obs.op = "encodePing" =>
          obs.decoded = [type |-> "ping", timestamp |-> obs.value]

\* a pair with the largest tick, the most negative axis and all buttons set
\* has gone through the codec
ExtremePairRoundTripped ==
    /\ obs.op = "encodeInputPair"
    /\ obs.value.tick = 2147483647
    /\ obs.value.a = [axis_y |-> -128, buttons |-> 255]
    /\ obs.value.b = [axis_y |-> -128, buttons |-> 255]
    /\ obs.decoded.inputPair = obs.value

\* byte k (0 = least significant) of an unsigned value; an i8 as a byte
ByteOf(n, k) == (n \div (256 ^ k)) % 256
TwosComplement(v) == IF v < 0 THEN v + 256 ELSE v

\* C16: encodeInputPair yields the 9 bytes 0x01, tick in 4 little-endian
\* bytes, a.axis as i8, a.buttons, b.axis as i8, b.buttons; encodePing yields
\* the 5 bytes 0x03, timestamp in 4 little-endian bytes; encodeSnapshot yields
\* 0x02 followed by the payload unchanged.
WireLayout ==
    /\ obs.op = "encodeInputPair" =>
          /\ Len(obs.bytes) = 9
          /\ obs.bytes = <<1, ByteOf(obs.value.tick, 0), ByteOf(obs.value.tick, 1),
                           ByteOf(obs.value.tick, 2), ByteOf(obs.value.tick, 3),
                           TwosComplement(obs.value.a.axis_y), obs.value.a.buttons,
                           TwosComplement(obs.value.b.axis_y), obs.value.b.buttons>>
    /\ obs.op = "encodePing" =>
          /\ Len(obs.bytes) = 5
          /\ obs.bytes = <<3, ByteOf(obs.value, 0), ByteOf(obs.value, 1),
                           ByteOf(obs.value, 2), ByteOf(obs.value, 3)>>
    /\ obs.op = "encodeSnapshot" =>
          /\ Len(obs.bytes) = 1 + Len(obs.value)
          /\ obs.bytes[1] = 2
          /\ \A i \in 1..Len(obs.value) : obs.bytes[i + 1] = obs.value[i]

\* tick 256 encoded: its second byte on the wire is the 1
Tick256Encoded ==
    /\ obs.op = "encodeInputPair"
    /\ obs.value.tick = 256
    /\ obs.value.a.axis_y = -1
    /\ SubSeq(obs.bytes, 1, 6) = <<1, 0, 1, 0, 0, 255>>

\* C17: start() with the transport open makes the engine running, sets the
\* cursor to the core's tick and empties both buffers; with the transport not
\* open it raises and leaves running flag, cursor and buffers as they were.
StartRequiresOpenTransport ==
    [][\A p \in Side :
          LastCall("start", p)' =>
              /\ core'[p] = core[p]
              /\ IF isConnected[p]
                 THEN /\ ~obs'.threw
                      /\ isRunning'[p]
                      /\ currentTick'[p] = core[p].tick
                      /\ localInputBuffer'[p] = EmptyMap
                      /\ remoteInputBuffer'[p] = EmptyMap
                 ELSE /\ obs'.threw
                      /\ isRunning'[p] = isRunning[p]
                      /\ currentTick'[p] = currentTick[p]
                      /\ localInputBuffer'[p] = localInputBuffer[p]
                      /\ remoteInputBuffer'[p] = remoteInputBuffer[p]]_vars

\* start() has failed on a running engine that holds inputs, its connection
\* having closed under it
StartFailedOnClosedTransport ==
    /\ obs.op = "start"
    /\ obs.threw
    /\ ~isConnected[obs.side]
    /\ isRunning[obs.side]
    /\ DOMAIN localInputBuffer[obs.side] # {}
    /\ DOMAIN remoteInputBuffer[obs.side] # {}

\* C18: stop() never raises and touches neither the core nor the cursor,
\* whatever the state it is called in; while the engine is not running,
\* tick() makes no core.step call, no received message (a Snapshot included)
\* changes the core, and only start() makes it running again.
StopSilencesEngine ==
    [][\A p \in Side :
          /\ LastCall("stop", p)' =>
                /\ ~obs'.threw
                /\ ~isRunning'[p]
                /\ core'[p] = core[p]
                /\ currentTick'[p] = currentTick[p]
          /\ (~isRunning[p] /\ LastCall("tick", p)') =>
                /\ obs'.steps = <<>>
                /\ core'[p] = core[p]
          /\ (~isRunning[p] /\ LastCall("onNetMessage", p)') =>
                /\ obs'.restored = <<>>
                /\ obs'.sent = <<>>
                /\ core'[p] = core[p]
                /\ currentTick'[p] = currentTick[p]
          /\ (~isRunning[p] /\ isRunning'[p]) => LastCall("start", p)']_vars

\* an engine stopped at tick 1 has been handed a valid snapshot of tick 0 and
\* kept its core
SnapshotIgnoredWhileStopped ==
    /\ obs.op = "onNetMessage"
    /\ ~isRunning[obs.side]
    /\ obs.arg = encodeSnapshot(snapshotBytes(NewGame))
    /\ core[obs.side].tick = 1
    /\ currentTick[obs.side] = 1

\* C19: stop() leaves the engine not running with both buffers empty and
\* cursor and core untouched, and a second stop() changes nothing more: the
\* state stop() produces is a fixed point of stop().
StopIsIdempotent ==
    [][\A p \in Side :
          LastCall("stop", p)' =>
              /\ Engine(p)' = Stopped(Engine(p))
              /\ Stopped(Engine(p)') = Engine(p)'
              /\ ~isRunning'[p]
              /\ localInputBuffer'[p] = EmptyMap
              /\ remoteInputBuffer'[p] = EmptyMap
              /\ currentTick'[p] = currentTick[p]
              /\ core'[p] = core[p]
              /\ (~isRunning[p] /\ localInputBuffer[p] = EmptyMap
                                /\ remoteInputBuffer[p] = EmptyMap) =>
                    Engine(p)' = Engine(p)]_vars

\* stop() has been called on an engine that had stepped tick 0
StoppedAfterStep ==
    /\ obs.op = "stop"
    /\ ~isRunning[obs.side]
    /\ currentTick[obs.side] = 1
    /\ core[obs.side].tick = 1
    /\ localInputBuffer[obs.side] = EmptyMap
    /\ remoteInputBuffer[obs.side] = EmptyMap

\* C20: requestSnapshot() sends exactly one Snapshot message carrying
\* core.snapshotBytes() in every state of the engine, and changes neither
\* core, cursor nor buffers.
SnapshotPushedInEveryState ==
    [][\A p \in Side :
          LastCall("requestSnapshot", p)' =>
              /\ obs'.sent = <<(<<WIRE_MSG_SNAPSHOT>> \o snapshotBytes(core[p]))>>
              /\ Engine(p)' = Engine(p)]_vars

\* C20, as the code has it: on a running engine requestSnapshot() makes one
\* transport.send call with the tag 0x02 followed by core.snapshotBytes(); on
\* an engine that is not running it raises and sends nothing; in both cases
\* core, cursor, running flag and buffers stay as they were.
SnapshotPushedWhileRunning ==
    [][\A p \in Side :
          LastCall("requestSnapshot", p)' =>
              /\ Engine(p)' = Engine(p)
              /\ obs'.steps = <<>>
              /\ obs'.restored = <<>>
              /\ IF isRunning[p]
                 THEN /\ ~obs'.threw
                      /\ obs'.sent = <<(<<WIRE_MSG_SNAPSHOT>> \o snapshotBytes(core[p]))>>
                 ELSE /\ obs'.threw
                      /\ obs'.sent = <<>>]_vars

\* a running engine at tick 1 that holds a local input has pushed its snapshot
SnapshotPushedAtTickOne ==
    /\ obs.op = "requestSnapshot"
    /\ isRunning[obs.side]
    /\ core[obs.side].tick = 1
    /\ 1 \in DOMAIN localInputBuffer[obs.side]
    /\ obs.sent = <<(<<WIRE_MSG_SNAPSHOT>> \o snapshotBytes(core[obs.side]))>>

\* C21: a failing transport.send is not fatal.  When send throws inside
\* onLocalInput, the call returns normally with the input recorded for the
\* current tick, the cursor unchanged and the engine still running; when it
\* throws inside requestSnapshot, ping or the automatic Ping reply, no error
\* leaves the call and no engine state changes.
SendingCall(o) ==
    /\ o.sent # <<>>
    /\ o.op \in {"onLocalInput", "requestSnapshot", "ping", "onNetMessage"}

FailedSendIsNotFatal ==
    [][\A p \in Side :
          (SendThrows(p) /\ obs'.side = p /\ SendingCall(obs')) =>
              /\ ~obs'.threw
              /\ isRunning'[p]
              /\ currentTick'[p] = currentTick[p]
              /\ core'[p] = core[p]
              /\ remoteInputBuffer'[p] = remoteInputBuffer[p]
              /\ net' = net
              /\ IF obs'.op = "onLocalInput"
                 THEN localInputBuffer'[p] =
                          MapSet(localInputBuffer[p], currentTick[p],
                                 OwnField(p, decode(obs'.sent[1]).inputPair))
                 ELSE localInputBuffer'[p] = localInputBuffer[p]]_vars

InputRecordedDespiteFailedSend ==
    /\ obs.op = "onLocalInput"
    /\ obs.sent # <<>>
    /\ ~isConnected[obs.side]
    /\ ~obs.threw
    /\ isRunning[obs.side]
    /\ MapHas(localInputBuffer[obs.side], currentTick[obs.side])

\* C22: no buffer entry is dropped for backlog size or age.  An input
\* buffered for a tick at or above the cursor stays in its buffer, whatever
\* is received for other ticks, until tick() consumes it at that tick or
\* start() / stop() clears the buffers.
Consumed(p, t) ==
    /\ LastCall("tick", p)'
    /\ obs'.steps # <<>>
    /\ t = currentTick[p]

Cleared(p) == LastCall("start", p)' \/ LastCall("stop", p)'

BufferedInputsAreKept ==
    [][\A p \in Side : \A t \in 0..(MaxTick + 1) :
          /\ (/\ MapHas(remoteInputBuffer[p], t)
              /\ t >= currentTick[p]
              /\ ~MapHas(remoteInputBuffer'[p], t)) => (Consumed(p, t) \/ Cleared(p))
          /\ (/\ MapHas(localInputBuffer[p], t)
              /\ t >= currentTick[p]
              /\ ~MapHas(localInputBuffer'[p], t)) => (Consumed(p, t) \/ Cleared(p))]_vars

BacklogKeptWhileReceiving ==
    /\ obs.op = "onNetMessage"
    /\ isRunning[obs.side]
    /\ decode(obs.arg).type = "input_pair"
    /\ \E t \in DOMAIN remoteInputBuffer[obs.side] :
          /\ t >= currentTick[obs.side]
          /\ t # decode(obs.arg).inputPair.tick
    /\ Cardinality(DOMAIN remoteInputBuffer[obs.side]) = MaxTick + 1

\* C23: a running engine that receives a Ping with timestamp t calls
\* transport.send exactly once, with a Ping message carrying the same t, and
\* changes neither its cursor, its buffers nor its core.
PingAnsweredWithSameTimestamp ==
    [][\A p \in Side :
          (/\ LastCall("onNetMessage", p)'
           /\ isRunning[p]
           /\ decode(obs'.arg).type = "ping") =>
              /\ Len(obs'.sent) = 1
              /\ Len(obs'.sent[1]) = 5
              /\ obs'.sent[1][1] = WIRE_MSG_PING
              /\ GetUint32(obs'.sent[1], 1) = decode(obs'.arg).timestamp
              /\ currentTick'[p] = currentTick[p]
              /\ localInputBuffer'[p] = localInputBuffer[p]
              /\ remoteInputBuffer'[p] = remoteInputBuffer[p]
              /\ core'[p] = core[p]
              /\ isRunning'[p]]_vars

Ping300Answered ==
    /\ obs.op = "onNetMessage"
    /\ isRunning[obs.side]
    /\ isConnected[obs.side]
    /\ obs.arg = <<WIRE_MSG_PING, 44, 1, 0, 0>>
    /\ obs.sent = <<obs.arg>>
    /\ currentTick[obs.side] > 0

\* C24: tick() returns a non-empty events list only when it advanced the
\* cursor in that call and core.step returned an event; the list is then one
\* game_advanced entry whose tick is the tick just stepped (the new cursor
\* minus one) and whose events hold the value step returned.  Without an
\* advance, or when step returned nothing, the list is empty.
StepReturned(p) ==
    IF obs'.steps = <<>> THEN <<>>
    ELSE StepEvent(core[p], obs'.steps[1].a, obs'.steps[1].b)

TickEventsReportTheStep ==
    [][\A p \in Side :
          LastCall("tick", p)' =>
              IF currentTick'[p] # currentTick[p] /\ StepReturned(p) # <<>>
              THEN /\ Len(obs'.events) = 1
                   /\ obs'.events[1].type = "game_advanced"
                   /\ obs'.events[1].tick = currentTick'[p] - 1
                   /\ obs'.events[1].tick = obs'.steps[1].tick
                   /\ obs'.events[1].events = StepReturned(p)
              ELSE obs'.events = <<>>]_vars

ScoreReportedAtTickOne ==
    /\ obs.op = "tick"
    /\ Len(obs.events) = 1
    /\ obs.events[1].tick = 1
    /\ currentTick[obs.side] = 2

SteppedWithoutEvent ==
    /\ obs.op = "tick"
    /\ obs.steps # <<>>
    /\ obs.events = <<>>

\* C25: in local game modes every wasmGame.step call of the game loop passes
\* a tick equal to the number of step calls made since the most recent
\* reset_match(), across any sequence of startGame, stopGame, rematch,
\* game-over handling and animation-frame callbacks.
StepTickIsEngineTick ==
    [][(app'.wasmTick = app.wasmTick + 1) => (app'.stepped = app.wasmTick)]_vars

\* C26: disconnect returns to the start screen.  While a networked game is
\* on, an iteration of networkGameLoop is always pending; the iteration that
\* finds the transport no longer open stops the Lockstep, closes and releases
\* the transport, sets networkingMode to local, shows the ModeSelect screen
\* and schedules no further iteration.
DisconnectReturnsToModeSelect ==
    /\ [](app.lockstep => app.networkGameLoop)
    /\ [][\A p \in Side :
            (/\ LastCall("networkGameLoop", p)'
             /\ obs' # obs
             /\ app.lockstep
             /\ ~isOpen(p)) =>
                /\ ~isRunning'[p]
                /\ localInputBuffer'[p] = EmptyMap /\ remoteInputBuffer'[p] = EmptyMap
                /\ ~app'.lockstep
                /\ ~app'.currentTransport
                /\ ~isConnected'[p]
                /\ app'.networkingMode = "local"
                /\ app'.currentScreen = "ModeSelect"
                /\ ~app'.networkGameLoop]_vars

LoopEndedAfterDisconnect ==
    /\ obs.op = "networkGameLoop"
    /\ obs.steps # <<>>
    /\ ~app.lockstep
    /\ ~app.currentTransport
    /\ ~app.networkGameLoop
    /\ app.currentScreen = "ModeSelect"
    /\ currentTick[obs.side] = 2

\* C27: cursor skew is bounded.  For two peers started at the same core tick,
\* with no Snapshot message and no restart, the two cursors differ by at most
\* one in every reachable state, whatever the interleaving of onLocalInput,
\* tick and delivery, with loss, duplication and reordering.
CursorSkewAtMostOne ==
    /\ currentTick[Left] - currentTick[Right] <= 1
    /\ currentTick[Right] - currentTick[Left] <= 1

\* one peer a full tick ahead of the other, with inputs of two different
\* ticks still in flight to it
AheadWithLateInputsInFlight ==
    \E p \in Side :
        /\ currentTick[p] = currentTick[Other(p)] + 1
        /\ currentTick[Other(p)] >= 1
        /\ \E old \in net[p], new \in net[p] :
              decode(old).inputPair.tick < decode(new).inputPair.tick

\* C28: progress under reliable delivery.  If both peers are started at the
\* same tick before either sends an input, every sent message is eventually
\* delivered and each peer's onLocalInput and tick keep being invoked, then
\* for every tick T each peer's cursor eventually exceeds T.
EveryTickIsEventuallyPassed ==
    \A p \in Side : \A t \in 0..(MaxTick - 1) : <>(currentTick[p] > t)

BothPassedEveryTick ==
    /\ peers = Side
    /\ watch = {}
    /\ lost = {}
    /\ currentTick[Left] = MaxTick
    /\ currentTick[Right] = MaxTick

\* C29: between two running peers on a channel that delivers every message,
\* the exchange started by a single ping() call terminates: from some point
\* on the channel carries no Ping message.
PingInFlight == \E p \in Side : \E bytes \in net[p] : decode(bytes).type = "ping"

PingExchangeTerminates == <>[](~PingInFlight)

\* C30: retired inputs do not accumulate.  Without Snapshot messages, after
\* any sequence of onLocalInput, tick and message deliveries (duplicated or
\* late InputPair messages included), remoteInputBuffer holds no entry whose
\* tick is below the cursor.
NoRetiredRemoteInputs ==
    \A p \in Side : \A t \in DOMAIN remoteInputBuffer[p] : t >= currentTick[p]

\* C31: while the engine is not running (constructed but not started, or
\* stopped), bytes handed to the message handler are ignored entirely: no
\* buffer entry is added, cursor and core are unchanged, no snapshot is
\* restored and no Ping reply is sent; and a successful start() leaves both
\* buffers empty, so nothing delivered before it is available afterwards.
MessagesIgnoredWhileNotRunning ==
    /\ [](\A p \in Side : ~isRunning[p] => remoteInputBuffer[p] = EmptyMap)
    /\ [][\A p \in Side :
            /\ (~isRunning[p] /\ LastCall("onNetMessage", p)') =>
                  /\ Engine(p)' = Engine(p)
                  /\ obs'.restored = <<>>
                  /\ obs'.sent = <<>>
                  /\ net' = net
                  /\ ~obs'.threw
            /\ (LastCall("start", p)' /\ ~obs'.threw) =>
                  /\ remoteInputBuffer'[p] = EmptyMap
                  /\ localInputBuffer'[p] = EmptyMap]_vars

\* an engine never started has been handed the input of tick 0 and holds
\* nothing
InputIgnoredBeforeStart ==
    /\ obs.op = "onNetMessage"
    /\ decode(obs.arg).type = "input_pair"
    /\ decode(obs.arg).inputPair.tick = 0
    /\ ~isRunning[obs.side]
    /\ currentTick[obs.side] = 0
    /\ core[obs.side] = NewGame
    /\ remoteInputBuffer[obs.side] = EmptyMap

\* C32: for every non-negative integer timestamp t, decode(encodePing(t))
\* is a ping whose timestamp is t modulo 2^32: a timestamp of 2^32 or more,
\* such as the millisecond clock, is wrapped to 32 bits, neither rejected nor
\* preserved.  (Values are limbs; below 2^31 the bytes are those of the
\* integer encoder.)
WholeLimbs(w) == w[1] + 65536 * w[2]

PingTimestampWrapsTo32Bits ==
    obs.op = "encodePing" =>
        /\ obs.decoded.type = "ping"
        /\ obs.decoded.timestamp = <<obs.value[1], obs.value[2], 0>>
        /\ (obs.value[3] > 0) => (obs.decoded.timestamp # obs.value)
        /\ (obs.value[3] = 0 /\ obs.value[2] < 32768) =>
              /\ obs.bytes = encodePing(WholeLimbs(obs.value))
              /\ decode(obs.bytes).timestamp = WholeLimbs(obs.value)

\* the clock value 1793563200000 has come back as 2561837568
ClockValueWrapped ==
    /\ obs.op = "encodePing"
    /\ obs.value = ClockNow
    /\ obs.bytes = <<WIRE_MSG_PING, 0, 138, 178, 152>>
    /\ obs.decoded.timestamp = <<35328, 39090, 0>>

\* C33: at most one game loop is live in GameStateManager at any time: while
\* the loop flag is up, at most one gameLoop closure has an animation-frame
\* request pending, so a callback left over from before a stop or a game
\* over never steps alongside the loop started after it.
AtMostOneLiveLoop == app.gameLoopRunning => app.loops <= 1

\* ---------------------------------------------------------------------------
\* PeerTransport in guest mode: connectToHostWithRetry, the events of its
\* connections, and close()
\* ---------------------------------------------------------------------------

\* maxRetries of the call in initialize()
MaxRetries == 3

\* attemptConnection runs explored beyond maxRetries
MaxExtra == 1

\* the retry test of the error handler and of the 10-second check
MayRetry(t) == t.attempts < MaxRetries

\* isOpen()
TransportIsOpenByFlag(t) == t.isConnected

TransportIsOpen(t) ==
    /\ t.isConnected
    /\ t.connection # 0
    /\ t.conns[t.connection] = "open"

\* send() throws
TransportSendThrows(t) == ~t.isConnected \/ t.connection = 0

\* a pending setTimeout(attemptConnection) fires (the first is the call at the
\* end of connectToHostWithRetry)
attemptConnection ==
    /\ app.transport.retryTimers > 0
    /\ app.transport.attempts < MaxRetries + MaxExtra
    /\ LET t == app.transport
           counted == [t EXCEPT !.retryTimers = @ - 1, !.attempts = @ + 1]
       IN  app' = [app EXCEPT !.transport =
                      IF ~t.peer THEN counted
                      ELSE [counted EXCEPT !.conns = Append(@, "connecting"),
                                           !.connection = Len(t.conns) + 1,
                                           !.attemptTimeouts = @ + 1]]
    /\ UNCHANGED EngineOnly

\* the "open" event of connection c
ConnectionOpened(c) ==
    /\ app.transport.conns[c] = "connecting"
    /\ app' = [app EXCEPT !.transport.conns[c] = "open",
                          !.transport.isConnected = TRUE]
    /\ UNCHANGED EngineOnly

\* the "close" event of connection c
ConnectionClosed(c) ==
    /\ app.transport.conns[c] \in {"connecting", "open", "failed"}
    /\ app' = [app EXCEPT !.transport.conns[c] = "closed",
                          !.transport.isConnected = FALSE]
    /\ UNCHANGED EngineOnly

\* the "error" event of connection c
ConnectionError(c) ==
    /\ app.transport.conns[c] \in {"connecting", "open"}
    /\ LET t == app.transport
       IN  app' = [app EXCEPT !.transport =
                      [t EXCEPT !.conns[c] = "failed",
                                !.isConnected = FALSE,
                                !.retryTimers = IF MayRetry(t) THEN @ + 1 ELSE @]]
    /\ UNCHANGED EngineOnly

\* the 10-second check of an attempt
AttemptTimeout ==
    /\ app.transport.attemptTimeouts > 0
    /\ LET t == app.transport
           fired == [t EXCEPT !.attemptTimeouts = @ - 1]
       IN  app' = [app EXCEPT !.transport =
                      IF ~t.isConnected /\ MayRetry(t)
                      THEN [fired EXCEPT !.conns = IF t.connection = 0 THEN @
                                                   ELSE [@ EXCEPT ![t.connection] = "closed"],
                                         !.retryTimers = @ + 1]
                      ELSE fired]
    /\ UNCHANGED EngineOnly

\* close()
close ==
    /\ ~app.transport.closed
    /\ LET t == app.transport
       IN  app' = [app EXCEPT !.transport =
                      [t EXCEPT !.conns = IF t.connection = 0 THEN @
                                          ELSE [@ EXCEPT ![t.connection] = "closed"],
                                !.connection = 0,
                                !.peer = FALSE,
                                !.isConnected = FALSE,
                                !.closed = TRUE]]
    /\ UNCHANGED EngineOnly

\* the guest's peer has opened and the 1-second delay before
\* connectToHostWithRetry(remotePeerId, 3) has passed
InitGuest ==
    /\ core = [p \in Side |-> NewGame]
    /\ currentTick = [p \in Side |-> NewGame.tick]
    /\ isRunning = [p \in Side |-> FALSE]
    /\ localInputBuffer = [p \in Side |-> EmptyMap]
    /\ remoteInputBuffer = [p \in Side |-> EmptyMap]
    /\ stepLog = [p \in Side |-> <<>>]
    /\ net = [p \in Side |-> {}]
    /\ obs = NoObs
    /\ isConnected = [p \in Side |-> FALSE]
    /\ peers = {}
    /\ watch = {}
    /\ resynced = FALSE
    /\ lost = {}
    /\ app = [NoApp EXCEPT !.transport.peer = TRUE, !.transport.retryTimers = 1]

NextGuest ==
    \/ attemptConnection
    \/ AttemptTimeout
    \/ close
    \/ \E c \in 1..Len(app.transport.conns) : ConnectionOpened(c)
    \/ \E c \in 1..Len(app.transport.conns) : ConnectionClosed(c)
    \/ \E c \in 1..Len(app.transport.conns) : ConnectionError(c)

SpecGuest == InitGuest /\ [][NextGuest]_vars

\* C35: connectToHostWithRetry makes at most maxRetries connection attempts
AtMostMaxRetriesAttempts == Len(app.transport.conns) <= MaxRetries

\* C36: once close() has been called the transport stays closed: isOpen() is
\* false and send() throws in every later state, the transport holds no
\* connection, and no retry timer, attempt timeout or connection event makes
\* a new connection
ClosedTransportStaysClosed ==
    /\ [](app.transport.closed =>
             /\ ~TransportIsOpen(app.transport)
             /\ TransportSendThrows(app.transport)
             /\ app.transport.connection = 0
             /\ ~app.transport.peer)
    /\ [][app.transport.closed => app'.transport.conns \in
             {app.transport.conns} \cup
             {[app.transport.conns EXCEPT ![c] = st] :
                 c \in 1..Len(app.transport.conns), st \in {"open", "closed", "failed"}}]_vars

\* after close(), a connection of an earlier attempt has opened and set the
\* isConnected flag, and every timer has fired
LateEventsAfterClose ==
    /\ app.transport.closed
    /\ app.transport.isConnected
    /\ app.transport.retryTimers = 0
    /\ app.transport.attemptTimeouts = 0

\* ---------------------------------------------------------------------------
\* The Host and Join screens: connection attempts, their polling timers and
\* the back button / ESC
\* ---------------------------------------------------------------------------

\* runs of initializeHostMode / the join handler in one behaviour
MaxVisits == 2

\* polls of a cancelled attempt that are counted
MaxPolls == 2

NewAttempt(mode) ==
    [mode |-> mode, phase |-> "creating", open |-> FALSE, closed |-> FALSE,
     cancelled |-> FALSE, polls |-> 0, started |-> FALSE]

Pending(att) == att.phase \in {"creating", "polling"}

\* the Host Game button: initializeHostMode() up to its await
initializeHostMode ==
    /\ app.currentScreen = "ModeSelect"
    /\ Len(app.lobby.attempts) < MaxVisits
    /\ app' = [app EXCEPT !.currentScreen = "Host",
                          !.lobby.attempts = Append(@, NewAttempt("host"))]
    /\ UNCHANGED EngineOnly

\* the Join Game button: initializeJoinMode()
initializeJoinMode ==
    /\ app.currentScreen = "ModeSelect"
    /\ app' = [app EXCEPT !.currentScreen = "Join", !.networkingMode = "join"]
    /\ UNCHANGED EngineOnly

\* the connect button of the Join screen: the join handler up to its await
onJoinGame ==
    /\ app.currentScreen = "Join"
    /\ Len(app.lobby.attempts) < MaxVisits
    /\ app' = [app EXCEPT !.lobby.attempts = Append(@, NewAttempt("join"))]
    /\ UNCHANGED EngineOnly

\* createHost() / createGuest() resolves: the rest of the handler of attempt i
PeerCreated(i) ==
    /\ app.lobby.attempts[i].phase = "creating"
    /\ app' = [app EXCEPT !.currentTransport = TRUE,
                          !.networkingMode = app.lobby.attempts[i].mode,
                          !.lobby.current = i,
                          !.lobby.attempts[i].phase = "polling"]
    /\ UNCHANGED EngineOnly

\* createHost() / createGuest() rejects: the catch block of attempt i
PeerFailed(i) ==
    /\ app.lobby.attempts[i].phase = "creating"
    /\ app' = [app EXCEPT !.lobby.attempts[i].phase = "failed",
                          !.currentScreen = IF app.lobby.attempts[i].mode = "host"
                                            THEN "Host" ELSE @]
    /\ UNCHANGED EngineOnly

\* the data connection of attempt i's transport opens
TransportOpens(i) ==
    /\ app.lobby.attempts[i].phase = "polling"
    /\ ~app.lobby.attempts[i].closed
    /\ ~app.lobby.attempts[i].open
    /\ app' = [app EXCEPT !.lobby.attempts[i].open = TRUE]
    /\ UNCHANGED EngineOnly

\* the checkConnection timer of attempt i fires: startNetworkedGame when its
\* transport is open, otherwise the timer is set again
checkConnection(i) ==
    LET att == app.lobby.attempts[i]
        side == IF att.mode = "host" THEN Left ELSE Right
    IN
    /\ att.phase = "polling"
    /\ IF ~att.open
       THEN /\ app' = [app EXCEPT !.lobby.attempts[i].polls =
                          IF att.cancelled /\ @ < MaxPolls THEN @ + 1 ELSE @]
            /\ UNCHANGED isRunning
       ELSE IF ~app.currentTransport
       THEN /\ app' = [app EXCEPT !.lobby.attempts[i].phase = "ended"]
            /\ UNCHANGED isRunning
       ELSE /\ app' = [app EXCEPT !.lockstep = TRUE,
                                  !.networkingMode = att.mode,
                                  !.currentScreen = "Game",
                                  !.networkGameLoop = TRUE,
                                  !.lobby.attempts[i].phase = "ended",
                                  !.lobby.attempts[i].started = TRUE]
            /\ isRunning' = [isRunning EXCEPT ![side] = TRUE]
    /\ UNCHANGED <<currentTick, localInputBuffer, remoteInputBuffer, core,
                   isConnected, net, stepLog, peers, watch, resynced, lost, obs>>

\* the back button of the Host or Join screen, or ESC on it:
\* cleanupNetworking() and the mode-select screen
LeaveLobby ==
    /\ app.currentScreen \in {"Host", "Join"}
    /\ LET cur == app.lobby.current
           left == [i \in 1..Len(app.lobby.attempts) |->
                      LET att == app.lobby.attempts[i]
                          shut == IF i = cur THEN [att EXCEPT !.closed = TRUE, !.open = FALSE]
                                  ELSE att
                      IN  IF Pending(att) THEN [shut EXCEPT !.cancelled = TRUE] ELSE shut]
       IN  app' = [cleanupNetworking(app) EXCEPT !.currentScreen = "ModeSelect",
                                                 !.lobby.attempts = left,
                                                 !.lobby.current = 0]
    /\ UNCHANGED EngineOnly

InitLobby ==
    /\ InitEngines
    /\ isConnected = [p \in Side |-> FALSE]
    /\ peers = {}
    /\ watch = {}
    /\ resynced = FALSE
    /\ lost = {}

NextLobby ==
    \/ initializeHostMode
    \/ initializeJoinMode
    \/ onJoinGame
    \/ LeaveLobby
    \/ \E i \in 1..Len(app.lobby.attempts) : PeerCreated(i)
    \/ \E i \in 1..Len(app.lobby.attempts) : PeerFailed(i)
    \/ \E i \in 1..Len(app.lobby.attempts) : TransportOpens(i)
    \/ \E i \in 1..Len(app.lobby.attempts) : checkConnection(i)

SpecLobby == InitLobby /\ [][NextLobby]_vars

\* every pending await settles and every pending timer fires
FairLobby ==
    /\ SpecLobby
    /\ \A i \in 1..MaxVisits :
          /\ WF_vars(i <= Len(app.lobby.attempts) /\ (PeerCreated(i) \/ PeerFailed(i)))
          /\ WF_vars(i <= Len(app.lobby.attempts) /\ checkConnection(i))

\* attempt i exists and was cancelled / has a checkConnection timer pending
Cancelled(i) ==
    IF i <= Len(app.lobby.attempts) THEN app.lobby.attempts[i].cancelled ELSE FALSE

Polling(i) ==
    IF i <= Len(app.lobby.attempts) THEN app.lobby.attempts[i].phase = "polling" ELSE FALSE

\* C34: an attempt the user cancelled by leaving the Host or Join screen never
\* starts a networked game, and its connection polling eventually stops
CancelledAttemptIsDead ==
    /\ [](\A i \in 1..Len(app.lobby.attempts) :
             app.lobby.attempts[i].cancelled => ~app.lobby.attempts[i].started)
    /\ \A i \in 1..MaxVisits : [](Cancelled(i) => <>(~Polling(i)))

\* the two halves of C34, separately
CancelledAttemptStartsNoGame ==
    \A i \in 1..Len(app.lobby.attempts) :
        app.lobby.attempts[i].cancelled => ~app.lobby.attempts[i].started

CancelledPollingStops ==
    \A i \in 1..MaxVisits : [](Cancelled(i) => <>(~Polling(i)))

\* ---------------------------------------------------------------------------
\* PeerIdUtils: the Game ID shown on the Host screen and typed on the Join
\* screen.  A string is a sequence of one-character strings.
\* ---------------------------------------------------------------------------

\* longest peer id handed to PeerIdUtils
MaxIdLen == 8

\* a lower-case letter, an upper-case letter, a dash and a space: one
\* character of each kind the three functions tell apart (digits and "_" are
\* treated as the lower-case letter is)
IdChars == {"a", "B", "-", " "}

PeerIds == UNION {[1..n -> IdChars] : n \in 7..MaxIdLen}

\* [a-zA-Z0-9_-]
IdCharAllowed(ch) == ch \in {"a", "B", "-"}

\* \s or -
IdCharStripped(ch) == ch \in {" ", "-"}

toLowerCase(ch) == IF ch = "B" THEN "b" ELSE ch

\* /^[a-zA-Z0-9_-]{8,64}$/.test(peerId)
isValidPeerId(peerId) ==
    /\ Len(peerId) >= 8
    /\ Len(peerId) <= 64
    /\ \A k \in 1..Len(peerId) : IdCharAllowed(peerId[k])

\* peerId.match(/.{1,4}/g).join("-"): groups of four characters, the last one
\* shorter, with a dash between neighbours
RECURSIVE JoinGroups(_)
JoinGroups(str) ==
    IF Len(str) <= 4 THEN str
    ELSE SubSeq(str, 1, 4) \o <<"-">> \o JoinGroups(SubSeq(str, 5, Len(str)))

formatPeerId(peerId) == IF Len(peerId) >= 8 THEN JoinGroups(peerId) ELSE peerId

\* input.replace(/[\s-]/g, "").toLowerCase()
cleanPeerId(input) ==
    LET kept == SelectSeq(input, LAMBDA ch : ~IdCharStripped(ch))
    IN  [k \in 1..Len(kept) |-> toLowerCase(kept[k])]

\* the host's peer id is shown by updateHostScreen and the text is typed into
\* the Join screen, whose connect button cleans it
ShareGameId ==
    /\ obs.op = "peerId"
    /\ obs' = [op |-> "shareGameId", value |-> obs.value, bytes |-> formatPeerId(obs.value),
               decoded |-> cleanPeerId(formatPeerId(obs.value))]
    /\ UNCHANGED <<currentTick, isRunning, localInputBuffer, remoteInputBuffer, core,
                   isConnected, net, stepLog, peers, watch, app, resynced, lost>>

\* a host whose peer has been given the id obs.value
InitPeerId ==
    /\ core = [p \in Side |-> NewGame]
    /\ currentTick = [p \in Side |-> NewGame.tick]
    /\ isRunning = [p \in Side |-> FALSE]
    /\ localInputBuffer = [p \in Side |-> EmptyMap]
    /\ remoteInputBuffer = [p \in Side |-> EmptyMap]
    /\ stepLog = [p \in Side |-> <<>>]
    /\ net = [p \in Side |-> {}]
    /\ app = NoApp
    /\ isConnected = [p \in Side |-> FALSE]
    /\ peers = {}
    /\ watch = {"codec"}
    /\ resynced = FALSE
    /\ lost = {}
    /\ obs \in {[op |-> "peerId", value |-> id, bytes |-> <<>>, decoded |-> <<>>] : id \in PeerIds}

SpecPeerId == InitPeerId /\ [][ShareGameId]_vars

\* C37: for every peer id accepted by isValidPeerId, cleaning the formatted id
\* gives the id back
GameIdSurvivesRoundTrip ==
    (obs.op = "shareGameId" /\ isValidPeerId(obs.value)) => obs.decoded = obs.value

\* C38: as long as no Snapshot message is received, localInputBuffer holds at
\* most one entry, and the entry it holds is keyed by the current cursor
LocalBufferHoldsOnlyTheCursor ==
    \A p \in Side :
        /\ Cardinality(DOMAIN localInputBuffer[p]) <= 1
        /\ \A k \in DOMAIN localInputBuffer[p] : k = currentTick[p]

\* an engine that has advanced holds its input for the new cursor
LocalInputHeldAtCursorOne ==
    \E p \in Side :
        /\ isRunning[p]
        /\ currentTick[p] = 1
        /\ DOMAIN localInputBuffer[p] = {1}
        /\ obs.op = "onLocalInput"

====
